---- MODULE Spec2Model ----
(***************************************************************************)
(* Appointment-booking dialogue engine of the veterinary chatbot backend:  *)
(* AppointmentFlowService (services/appointmentFlowService.js) and the     *)
(* chat controller that drives it (controllers/chatController.js).         *)
(*                                                                         *)
(* Text is modelled as sequences of one-character strings, so that the     *)
(* regular expressions, parsers and validators of the source are computed  *)
(* on the characters of an utterance, as the code computes them.           *)
(***************************************************************************)
EXTENDS Integers, Sequences, FiniteSets, TLC

----------------------------------------------------------------------------
(* Characters and the regular-expression primitives the source uses.       *)

LowerLetters == <<"a","b","c","d","e","f","g","h","i","j","k","l","m","n","o","p","q","r","s","t","u","v","w","x","y","z">>
UpperLetters == <<"A","B","C","D","E","F","G","H","I","J","K","L","M","N","O","P","Q","R","S","T","U","V","W","X","Y","Z">>
DigitChars == <<"0","1","2","3","4","5","6","7","8","9">>

Range(f) == { f[i] : i \in DOMAIN f }

\* the least element of a non-empty set of positions: where the leftmost
\* match of a regular expression starts
Leftmost(starts) == CHOOSE x \in starts : \A y \in starts : x <= y

IsLower(c) == c \in Range(LowerLetters)
IsUpper(c) == c \in Range(UpperLetters)
IsLetter(c) == IsLower(c) \/ IsUpper(c)
\* \d
IsDigit(c) == c \in Range(DigitChars)
\* \w
IsWordChar(c) == IsLetter(c) \/ IsDigit(c) \/ c = "_"
\* \s
IsSpace(c) == c \in {" ", "\t", "\n", "\r"}

\* String.prototype.toLowerCase, one character
LowerChar(c) ==
    IF IsUpper(c)
    THEN LowerLetters[CHOOSE i \in 1..26 : UpperLetters[i] = c]
    ELSE c

\* String.prototype.toLowerCase
toLowerCase(s) == [i \in 1..Len(s) |-> LowerChar(s[i])]

\* String.prototype.trim
trim(s) ==
    IF \A i \in 1..Len(s) : IsSpace(s[i])
    THEN << >>
    ELSE LET a == CHOOSE i \in 1..Len(s) :
                     ~IsSpace(s[i]) /\ \A k \in 1..(i-1) : IsSpace(s[k])
             b == CHOOSE i \in 1..Len(s) :
                     ~IsSpace(s[i]) /\ \A k \in (i+1)..Len(s) : IsSpace(s[k])
         IN  SubSeq(s, a, b)

\* the literal lit occurs in s at position i
MatchAt(s, i, lit) ==
    /\ i >= 1
    /\ i + Len(lit) - 1 <= Len(s)
    /\ \A k \in 1..Len(lit) : s[i + k - 1] = lit[k]

\* the same under the /i flag (lit is written in lower case)
MatchAtCI(s, i, lit) == MatchAt(toLowerCase(s), i, lit)

\* String.prototype.includes
includes(s, lit) == \E i \in 1..Len(s) : MatchAt(s, i, lit)

\* position i of s holds a \w character
IsWordAt(s, i) == i \in 1..Len(s) /\ IsWordChar(s[i])

\* \b between positions i-1 and i
WordBoundary(s, i) == IsWordAt(s, i - 1) # IsWordAt(s, i)

\* /\b(k1|k2|...)\b/.test(s)
TestWordBounded(s, kws) ==
    \E i \in 1..Len(s) : \E k \in kws :
        MatchAt(s, i, k) /\ WordBoundary(s, i) /\ WordBoundary(s, i + Len(k))

\* /^(k1|k2|...)/.test(s)
TestPrefix(s, kws) == \E k \in kws : MatchAt(s, 1, k)

\* end of the greedy run \w+ that starts at j (s[j] is a \w character)
WordRunEnd(s, j) ==
    CHOOSE e \in j..Len(s) :
        /\ \A k \in j..e : IsWordChar(s[k])
        /\ ~IsWordAt(s, e + 1)

\* end of the greedy run \s+ that starts at j (s[j] is a \s character)
SpaceRunEnd(s, j) ==
    CHOOSE e \in j..Len(s) :
        /\ \A k \in j..e : IsSpace(s[k])
        /\ ~(e + 1 <= Len(s) /\ IsSpace(s[e + 1]))

\* end of the capture (\w+(?:\s+\w+)?) that starts at j
TwoWordEnd(s, j) ==
    LET Second(e1, sp) ==
            IF IsWordAt(s, sp + 1) THEN WordRunEnd(s, sp + 1) ELSE e1
        First(e1) ==
            IF e1 + 1 <= Len(s) /\ IsSpace(s[e1 + 1])
            THEN Second(e1, SpaceRunEnd(s, e1 + 1))
            ELSE e1
    IN  First(WordRunEnd(s, j))

\* the absent result of a match, a parser or a property read
Null == [t |-> "null", s |-> << >>]
\* a JavaScript string value
Str(chars) == [t |-> "str", s |-> chars]

\* `if (match) { ...; break; }` in a loop over patterns: the first match
\* wins, the rest is tried only when there is none
FirstMatch(match, rest) == IF match # Null THEN match ELSE rest

\* message.match(/<lit>(\w+)/i) or message.match(/<lit>(\w+(?:\s+\w+)?)/i),
\* for a pattern whose literal part is one of lits: the leftmost match's
\* capture group 1, trimmed, or Null
MatchCapture(message, lits, twoWords) ==
    LET Hit(i, l) == MatchAtCI(message, i, l) /\ IsWordAt(message, i + Len(l))
        Capture(j) ==
            Str(trim(SubSeq(message, j, IF twoWords THEN TwoWordEnd(message, j)
                                                    ELSE WordRunEnd(message, j))))
        MatchFrom(i) == Capture(i + Len(CHOOSE l \in lits : Hit(i, l)))
        Among(starts) == IF starts = {} THEN Null ELSE MatchFrom(Leftmost(starts))
    IN  Among({ i \in 1..Len(message) : \E l \in lits : Hit(i, l) })

----------------------------------------------------------------------------
(* Numbers in text: parseInt, Number.prototype.toString, padStart(2, '0'). *)

DigitValue(c) == (CHOOSE i \in 1..10 : DigitChars[i] = c) - 1

\* parseInt of a non-empty run of digits
RECURSIVE parseInt(_)
parseInt(ds) ==
    IF Len(ds) = 0 THEN 0
    ELSE 10 * parseInt(SubSeq(ds, 1, Len(ds) - 1)) + DigitValue(ds[Len(ds)])

\* n.toString() for n >= 0
RECURSIVE toString(_)
toString(n) ==
    IF n < 10 THEN << DigitChars[n + 1] >>
    ELSE toString(n \div 10) \o << DigitChars[(n % 10) + 1] >>

\* n.toString().padStart(2, '0')
Pad2(n) == IF n < 10 THEN << "0" >> \o toString(n) ELSE toString(n)

\* number of leading digits of s from position i
RECURSIVE DigitRun(_, _)
DigitRun(s, i) ==
    IF i <= Len(s) /\ IsDigit(s[i]) THEN 1 + DigitRun(s, i + 1) ELSE 0

\* s.replace(/\D/g, '')
stripNonDigits(s) == SelectSeq(s, IsDigit)

----------------------------------------------------------------------------
(* A backtracking matcher for the phone patterns: a pattern is a sequence  *)
(* of items, each an optional character of a class (greedy) or exactly n   *)
(* characters of a class.                                                  *)

NoMatch == 0 - 1

Opt(cls) == [opt |-> TRUE, cls |-> cls, n |-> 1]
Rep(cls, n) == [opt |-> FALSE, cls |-> cls, n |-> n]

\* index of the last character matched by items[k..] from position p of s,
\* or NoMatch
RECURSIVE RxEnd(_, _, _, _)
RxEnd(s, p, items, k) ==
    IF k > Len(items) THEN p - 1
    ELSE LET it == items[k]
         IN  IF it.opt
             THEN LET taken == IF p <= Len(s) /\ s[p] \in it.cls
                               THEN RxEnd(s, p + 1, items, k + 1)
                               ELSE NoMatch
                  IN  IF taken # NoMatch THEN taken
                      ELSE RxEnd(s, p, items, k + 1)
             ELSE IF /\ p + it.n - 1 <= Len(s)
                     /\ \A q \in p..(p + it.n - 1) : s[q] \in it.cls
                  THEN RxEnd(s, p + it.n, items, k + 1)
                  ELSE NoMatch

\* message.match(/(<items>)/): the leftmost match's capture, trimmed, or Null
RxCapture(message, items) ==
    LET MatchFrom(i) == Str(trim(SubSeq(message, i, RxEnd(message, i, items, 1))))
        Among(starts) == IF starts = {} THEN Null ELSE MatchFrom(Leftmost(starts))
    IN  Among({ i \in 1..Len(message) : RxEnd(message, i, items, 1) # NoMatch })

----------------------------------------------------------------------------
(* Configuration: REQUIRED_FIELDS and FIELD_CONFIG                         *)

REQUIRED_FIELDS ==
    << "petOwnerName", "petName", "phoneNumber", "preferredDate", "preferredTime" >>

RequiredSet == Range(REQUIRED_FIELDS)

\* FIELD_CONFIG.petOwnerName.extractPatterns, in order:
\* the literal part of each pattern and whether its capture is
\* (\w+(?:\s+\w+)?) or (\w+)
OwnerPatterns ==
    << [lits |-> { <<"m","y"," ","n","a","m","e"," ","i","s"," ">> }, twoWords |-> TRUE],
       [lits |-> { <<"i","'","m"," ">> }, twoWords |-> TRUE],
       [lits |-> { <<"i"," ","a","m"," ">> }, twoWords |-> TRUE],
       [lits |-> { <<"c","a","l","l"," ","m","e"," ">> }, twoWords |-> FALSE],
       [lits |-> { <<"t","h","i","s"," ","i","s"," ">> }, twoWords |-> TRUE] >>

\* FIELD_CONFIG.petName.extractPatterns, in order, each alternation
\* (?:pet|dog|cat|bird|rabbit), (?:is called|named), (?:his|her|its) expanded
PetPatterns ==
    << [lits |-> { <<"m","y"," ","p","e","t","'","s"," ","n","a","m","e"," ","i","s"," ">>, <<"m","y"," ","d","o","g","'","s"," ","n","a","m","e"," ","i","s"," ">>,
                   <<"m","y"," ","c","a","t","'","s"," ","n","a","m","e"," ","i","s"," ">>, <<"m","y"," ","b","i","r","d","'","s"," ","n","a","m","e"," ","i","s"," ">>,
                   <<"m","y"," ","r","a","b","b","i","t","'","s"," ","n","a","m","e"," ","i","s"," ">> }, twoWords |-> FALSE],
       [lits |-> { <<"p","e","t"," ","i","s"," ","c","a","l","l","e","d"," ">>, <<"d","o","g"," ","i","s"," ","c","a","l","l","e","d"," ">>,
                   <<"c","a","t"," ","i","s"," ","c","a","l","l","e","d"," ">>, <<"b","i","r","d"," ","i","s"," ","c","a","l","l","e","d"," ">>,
                   <<"r","a","b","b","i","t"," ","i","s"," ","c","a","l","l","e","d"," ">>,
                   <<"p","e","t"," ","n","a","m","e","d"," ">>, <<"d","o","g"," ","n","a","m","e","d"," ">>, <<"c","a","t"," ","n","a","m","e","d"," ">>,
                   <<"b","i","r","d"," ","n","a","m","e","d"," ">>, <<"r","a","b","b","i","t"," ","n","a","m","e","d"," ">> }, twoWords |-> FALSE],
       [lits |-> { <<"h","i","s"," ","n","a","m","e"," ","i","s"," ">>, <<"h","e","r"," ","n","a","m","e"," ","i","s"," ">>, <<"i","t","s"," ","n","a","m","e"," ","i","s"," ">> },
        twoWords |-> FALSE],
       [lits |-> { <<"c","a","l","l","e","d"," ">> }, twoWords |-> FALSE],
       [lits |-> { <<"n","a","m","e","d"," ">> }, twoWords |-> FALSE] >>

PhoneSep == {"-", ".", " ", "\t", "\n", "\r"}
DigitSet == Range(DigitChars)

\* FIELD_CONFIG.phoneNumber.extractPatterns[0] and [1]
PhonePattern1 ==
    << Opt({"+"}), Opt({"1"}), Opt(PhoneSep), Opt({"("}), Rep(DigitSet, 3),
       Opt({")"}), Opt(PhoneSep), Rep(DigitSet, 3), Opt(PhoneSep),
       Rep(DigitSet, 4) >>
PhonePattern2 ==
    << Rep(DigitSet, 3), Opt(PhoneSep), Rep(DigitSet, 3), Opt(PhoneSep),
       Rep(DigitSet, 4) >>

MinPhoneDigits == 10
MaxPhoneDigits == 15

\* FIELD_CONFIG.phoneNumber.extractPatterns[2]: /(\d{10,15})/
PhoneDigitsCapture(message) ==
    LET Take(i, n) ==
            SubSeq(message, i, i + (IF n > MaxPhoneDigits THEN MaxPhoneDigits ELSE n) - 1)
        MatchFrom(i) == Str(Take(i, DigitRun(message, i)))
        Among(starts) == IF starts = {} THEN Null ELSE MatchFrom(Leftmost(starts))
    IN  Among({ i \in 1..Len(message) : DigitRun(message, i) >= MinPhoneDigits })

\* the loop over a field's extractPatterns: the first pattern that matches
\* gives the value
RECURSIVE FirstPattern(_, _, _)
FirstPattern(message, patterns, k) ==
    IF k > Len(patterns) THEN Null
    ELSE FirstMatch(MatchCapture(message, patterns[k].lits, patterns[k].twoWords),
                    FirstPattern(message, patterns, k + 1))

extractPhone(message) ==
    FirstMatch(RxCapture(message, PhonePattern1),
               FirstMatch(RxCapture(message, PhonePattern2),
                          PhoneDigitsCapture(message)))

----------------------------------------------------------------------------
(* parseNaturalTime                                                        *)

\* the first position after the greedy run \s* that starts at p
SkipSpaces(s, p) ==
    IF p <= Len(s) /\ IsSpace(s[p]) THEN SpaceRunEnd(s, p) + 1 ELSE p

\* /(\d{1,2})(?::(\d{2}))?\s*(am|pm)/ tried at position i with nd digits of
\* hour and with or without the minutes group: the match or NoTime
NoTime == [ok |-> FALSE, hours |-> 0, minutes |-> 0, isPm |-> FALSE]

\* a match tried in the order of the expression's alternatives: the first
\* that succeeds
FirstOk(match, rest) == IF match.ok THEN match ELSE rest

AmPmAt(s, i, nd, withMin) ==
    LET Found(p1, p3) ==
            IF /\ DigitRun(s, i) >= nd
               /\ withMin => (p1 <= Len(s) /\ s[p1] = ":" /\ DigitRun(s, p1 + 1) >= 2)
               /\ MatchAt(s, p3, <<"a","m">>) \/ MatchAt(s, p3, <<"p","m">>)
            THEN [ok |-> TRUE,
                  hours |-> parseInt(SubSeq(s, i, i + nd - 1)),
                  minutes |-> IF withMin THEN parseInt(SubSeq(s, p1 + 1, p1 + 2)) ELSE 0,
                  isPm |-> MatchAt(s, p3, <<"p","m">>)]
            ELSE NoTime
        AfterHour(p1) == Found(p1, SkipSpaces(s, IF withMin THEN p1 + 3 ELSE p1))
    IN  AfterHour(i + nd)

\* the alternatives of a match at one position, in the order the regular
\* expression engine tries them (greedy first)
AmPmOptions == << <<2, TRUE>>, <<2, FALSE>>, <<1, TRUE>>, <<1, FALSE>> >>

\* lowerText.match(/(\d{1,2})(?::(\d{2}))?\s*(am|pm)/i): the leftmost
\* position with a match, and there the first alternative that matches
amPmMatch(s) ==
    LET Hit(i, k) == AmPmAt(s, i, AmPmOptions[k][1], AmPmOptions[k][2])
        MatchFrom(i) == Hit(i, Leftmost({ k \in 1..4 : Hit(i, k).ok }))
        Among(starts) == IF starts = {} THEN NoTime ELSE MatchFrom(Leftmost(starts))
    IN  Among({ i \in 1..Len(s) : \E k \in 1..4 : Hit(i, k).ok })

\* /(\d{1,2})(am|pm)/ tried at position i with nd digits
SimpleAmPmAt(s, i, nd) ==
    IF /\ DigitRun(s, i) >= nd
       /\ MatchAt(s, i + nd, <<"a","m">>) \/ MatchAt(s, i + nd, <<"p","m">>)
    THEN [ok |-> TRUE, hours |-> parseInt(SubSeq(s, i, i + nd - 1)),
          minutes |-> 0, isPm |-> MatchAt(s, i + nd, <<"p","m">>)]
    ELSE NoTime

\* lowerText.match(/(\d{1,2})(am|pm)/i): 2 digits are tried before 1
simpleAmPmMatch(s) ==
    LET MatchFrom(i) == FirstOk(SimpleAmPmAt(s, i, 2), SimpleAmPmAt(s, i, 1))
        Among(starts) == IF starts = {} THEN NoTime ELSE MatchFrom(Leftmost(starts))
    IN  Among({ i \in 1..Len(s) : MatchFrom(i).ok })

\* /(\d{1,2}):(\d{2})/ tried at position i with nd digits
HourMinAt(s, i, nd) ==
    IF /\ DigitRun(s, i) >= nd
       /\ i + nd <= Len(s) /\ s[i + nd] = ":"
       /\ DigitRun(s, i + nd + 1) >= 2
    THEN [ok |-> TRUE, hours |-> parseInt(SubSeq(s, i, i + nd - 1)),
          minutes |-> parseInt(SubSeq(s, i + nd + 1, i + nd + 2)), isPm |-> FALSE]
    ELSE NoTime

\* lowerText.match(/(\d{1,2}):(\d{2})/): 2 digits are tried before 1
hourMinMatch(s) ==
    LET MatchFrom(i) == FirstOk(HourMinAt(s, i, 2), HourMinAt(s, i, 1))
        Among(starts) == IF starts = {} THEN NoTime ELSE MatchFrom(Leftmost(starts))
    IN  Among({ i \in 1..Len(s) : MatchFrom(i).ok })

\* `${hours.toString().padStart(2, '0')}:${minutes.toString().padStart(2, '0')}`
HHMM(hours, minutes) == Pad2(hours) \o << ":" >> \o Pad2(minutes)

\* the 12-hour to 24-hour step of both am/pm branches
To24(hours, isPm) ==
    IF isPm /\ hours # 12 THEN hours + 12
    ELSE IF ~isPm /\ hours = 12 THEN 0
    ELSE hours

MinBareHour == 8
MaxBareHour == 18

parseNaturalTime(text) ==
    LET HourOnly(hours) ==
            IF hours >= MinBareHour /\ hours <= MaxBareHour
            THEN Str(HHMM(hours, 0)) ELSE Null
        JustHour(lowerText) ==
            IF Len(lowerText) \in 1..2 /\ DigitRun(lowerText, 1) = Len(lowerText)
            THEN HourOnly(parseInt(lowerText)) ELSE Null
        HourMin(hm, rest) ==
            IF hm.ok /\ hm.hours <= 23 /\ hm.minutes <= 59
            THEN Str(HHMM(hm.hours, hm.minutes)) ELSE rest
        SimpleAmPm(sp, rest) ==
            IF sp.ok THEN Str(HHMM(To24(sp.hours, sp.isPm), 0)) ELSE rest
        AmPm(ap, rest) ==
            IF ap.ok THEN Str(HHMM(To24(ap.hours, ap.isPm), ap.minutes)) ELSE rest
        Parse(lowerText) ==
            IF lowerText \in { <<"m","o","r","n","i","n","g">>, <<"i","n"," ","t","h","e"," ","m","o","r","n","i","n","g">> } THEN Str(<<"0","9",":","0","0">>)
            ELSE IF lowerText \in { <<"a","f","t","e","r","n","o","o","n">>, <<"i","n"," ","t","h","e"," ","a","f","t","e","r","n","o","o","n">> } THEN Str(<<"1","4",":","0","0">>)
            ELSE IF lowerText \in { <<"e","v","e","n","i","n","g">>, <<"i","n"," ","t","h","e"," ","e","v","e","n","i","n","g">> } THEN Str(<<"1","7",":","0","0">>)
            ELSE IF lowerText \in { <<"n","o","o","n">>, <<"m","i","d","d","a","y">> } THEN Str(<<"1","2",":","0","0">>)
            ELSE AmPm(amPmMatch(lowerText),
                      SimpleAmPm(simpleAmPmMatch(lowerText),
                                 HourMin(hourMinMatch(lowerText), JustHour(lowerText))))
    IN  IF Len(text) = 0 THEN Null ELSE Parse(trim(toLowerCase(text)))

----------------------------------------------------------------------------
(* Calendar dates.  A local calendar day is the number of days since       *)
(* 1970-01-01; a Date object is a count of hours since 1970-01-01T00:00Z   *)
(* (the zones modelled are whole hours from UTC), or Invalid Date.         *)

\* day number of the proleptic Gregorian date y-m-d (m in 1..12, any d)
DaysFromCivil(y, m, d) ==
    LET DayOfEra(yoe, doy) == yoe * 365 + yoe \div 4 - yoe \div 100 + doy
        FromMarch(yy) ==
            (yy \div 400) * 146097
            + DayOfEra(yy % 400, (153 * ((m + 9) % 12) + 2) \div 5 + d - 1)
            - 719468
    IN  FromMarch(IF m <= 2 THEN y - 1 ELSE y)

\* the date [y, m, d] of a day number
CivilFromDays(z) ==
    LET Civil(era, yoe, mp, doy) ==
            [y |-> yoe + era * 400 + (IF mp >= 10 THEN 1 ELSE 0),
             m |-> IF mp < 10 THEN mp + 3 ELSE mp - 9,
             d |-> doy - (153 * mp + 2) \div 5 + 1]
        FromDayOfYear(era, yoe, doy) == Civil(era, yoe, (5 * doy + 2) \div 153, doy)
        FromYearOfEra(era, doe, yoe) ==
            FromDayOfYear(era, yoe, doe - (365 * yoe + yoe \div 4 - yoe \div 100))
        FromDayOfEra(era, doe) ==
            FromYearOfEra(era, doe,
                (doe - doe \div 1460 + doe \div 36524 - doe \div 146096) \div 365)
        FromShifted(zz) == FromDayOfEra(zz \div 146097, zz % 146097)
    IN  FromShifted(z + 719468)

InvalidDate == [ok |-> FALSE, h |-> 0]
DateAt(h) == [ok |-> TRUE, h |-> h]

\* new Date(year, monthIndex, day): local midnight, with the overflow of
\* monthIndex and day carried as MakeDay does
LocalDay(year, monthIndex, day) ==
    LET y == (IF year \in 0..99 THEN 1900 + year ELSE year) + monthIndex \div 12
    IN  DaysFromCivil(y, (monthIndex % 12) + 1, 1) + day - 1

\* the Date of local midnight of a local day, in the zone tz hours east of UTC
LocalMidnight(day, tz) == DateAt(day * 24 - tz)

\* the local calendar day of a Date (getFullYear, getMonth, getDate)
LocalDayOf(date, tz) == (date.h + tz) \div 24

\* Date.prototype.getDay of a local day: 0 is Sunday
getDay(day) == (day + 4) % 7

\* formatDate: `${year}-${month}-${day}`, month and day padded to 2 digits
formatDay(day) ==
    LET Format(c) == toString(c.y) \o << "-" >> \o Pad2(c.m) \o << "-" >> \o Pad2(c.d)
    IN  Format(CivilFromDays(day))

formatDate(date, tz) == formatDay(LocalDayOf(date, tz))

\* s has the shape \d{4}-\d{2}-\d{2} from position i
IsoShapeAt(s, i) ==
    /\ i + 9 <= Len(s)
    /\ \A k \in {0, 1, 2, 3, 5, 6, 8, 9} : IsDigit(s[i + k])
    /\ s[i + 4] = "-" /\ s[i + 7] = "-"

\* s has the shape \d{1,2}/\d{1,2}/\d{4} from position i, with n1 and n2
\* digits in the first two numbers
SlashShapeAt(s, i, n1, n2) ==
    /\ DigitRun(s, i) >= n1
    /\ i + n1 <= Len(s) /\ s[i + n1] = "/"
    /\ DigitRun(s, i + n1 + 1) >= n2
    /\ i + n1 + 1 + n2 <= Len(s) /\ s[i + n1 + 1 + n2] = "/"
    /\ DigitRun(s, i + n1 + n2 + 2) >= 4

SlashParts(s, i, n1, n2) ==
    [first |-> parseInt(SubSeq(s, i, i + n1 - 1)),
     second |-> parseInt(SubSeq(s, i + n1 + 1, i + n1 + n2)),
     year |-> parseInt(SubSeq(s, i + n1 + n2 + 2, i + n1 + n2 + 5))]

\* new Date(text) for a string, as Node's parser answers it:
\*  - the ISO date YYYY-MM-DD alone is UTC midnight; the month must be 1..12
\*    and the day 1..31, and a day past the month's end carries over;
\*  - M/D/YYYY alone is local midnight of that date;
\*  - a text without any digit is Invalid Date;
\*  - every other text (the legacy parser's free forms) is taken as Invalid
\*    Date: the utterances of the model are chosen among those for which
\*    the legacy parser gives up (a number followed by a word it does not
\*    know, or a month or day out of range).
DateParse(text, tz) ==
    LET Iso(y, m, d) ==
            IF m \in 1..12 /\ d \in 1..31
            THEN DateAt(24 * (DaysFromCivil(y, m, 1) + d - 1))
            ELSE InvalidDate
        Slash(sp) ==
            IF sp.first \in 1..12 /\ sp.second \in 1..31
            THEN LocalMidnight(LocalDay(sp.year, sp.first - 1, sp.second), tz)
            ELSE InvalidDate
        SlashAlone(n1, n2) ==
            SlashShapeAt(text, 1, n1, n2) /\ Len(text) = n1 + n2 + 6
        SlashOf(n) == Slash(SlashParts(text, 1, n[1], n[2]))
    IN  IF Len(text) = 10 /\ IsoShapeAt(text, 1)
        THEN Iso(parseInt(SubSeq(text, 1, 4)), parseInt(SubSeq(text, 6, 7)),
                 parseInt(SubSeq(text, 9, 10)))
        ELSE IF \E n \in (1..2) \X (1..2) : SlashAlone(n[1], n[2])
        THEN SlashOf(CHOOSE n \in (1..2) \X (1..2) : SlashAlone(n[1], n[2]))
        ELSE InvalidDate

----------------------------------------------------------------------------
(* parseNaturalDate                                                        *)

\* dayNames, index 0 is sunday
dayNames ==
    << <<"s","u","n","d","a","y">>, <<"m","o","n","d","a","y">>, <<"t","u","e","s","d","a","y">>, <<"w","e","d","n","e","s","d","a","y">>, <<"t","h","u","r","s","d","a","y">>,
       <<"f","r","i","d","a","y">>, <<"s","a","t","u","r","d","a","y">> >>

\* /<word>\s+(monday|...|sunday)/ at position i of s: the index in dayNames
\* of the day matched, or NoMatch
WeekdayAt(s, i, word) ==
    LET DayAt(p, q) ==
            IF /\ MatchAt(s, i, word)
               /\ p <= Len(s) /\ IsSpace(s[p])
               /\ \E k \in 1..7 : MatchAt(s, q, dayNames[k])
            THEN (CHOOSE k \in 1..7 : MatchAt(s, q, dayNames[k])) - 1
            ELSE NoMatch
        AfterWord(p) == DayAt(p, SkipSpaces(s, p))
    IN  AfterWord(i + Len(word))

\* lowerText.match(/<word>\s+(monday|...)/i): dayNames.indexOf(match[1]) of
\* the leftmost match, or NoMatch
WeekdayMatch(s, word) ==
    LET Among(starts) ==
            IF starts = {} THEN NoMatch ELSE WeekdayAt(s, Leftmost(starts), word)
    IN  Among({ i \in 1..Len(s) : WeekdayAt(s, i, word) # NoMatch })

\* the alternatives of the month in the Month Day pattern, in order, with
\* the optional rest of the full name; monthNames maps both to the index
MonthAlts ==
    << [abbr |-> <<"j","a","n">>, rest |-> <<"u","a","r","y">>], [abbr |-> <<"f","e","b">>, rest |-> <<"r","u","a","r","y">>],
       [abbr |-> <<"m","a","r">>, rest |-> <<"c","h">>], [abbr |-> <<"a","p","r">>, rest |-> <<"i","l">>],
       [abbr |-> <<"m","a","y">>, rest |-> << >>], [abbr |-> <<"j","u","n">>, rest |-> <<"e">>],
       [abbr |-> <<"j","u","l">>, rest |-> <<"y">>], [abbr |-> <<"a","u","g">>, rest |-> <<"u","s","t">>],
       [abbr |-> <<"s","e","p">>, rest |-> <<"t","e","m","b","e","r">>], [abbr |-> <<"o","c","t">>, rest |-> <<"o","b","e","r">>],
       [abbr |-> <<"n","o","v">>, rest |-> <<"e","m","b","e","r">>], [abbr |-> <<"d","e","c">>, rest |-> <<"e","m","b","e","r">>] >>

OrdinalSuffixes == { <<"s","t">>, <<"n","d">>, <<"r","d">>, <<"t","h">> }

NoMonthDay == [ok |-> FALSE, month |-> 0, lead |-> << >>, trail |-> << >>]

\* the month alternation and what follows it, \s*(\d{1,2})?(?:st|nd|rd|th)?,
\* at position p: month index (0 is January) and capture group 3
MonthAt(s, p, lead) ==
    LET Trail(c, nd) == SubSeq(s, c, c + (IF nd >= 2 THEN 2 ELSE nd) - 1)
        DayFrom(k, c) ==
            [ok |-> TRUE, month |-> k - 1, lead |-> lead,
             trail |-> Trail(c, DigitRun(s, c))]
        FullName(k, a, rest) ==
            DayFrom(k, SkipSpaces(s, IF Len(rest) > 0 /\ MatchAt(s, a, rest)
                                     THEN a + Len(rest) ELSE a))
        Month(k) == FullName(k, p + 3, MonthAlts[k].rest)
    IN  IF \E k \in 1..12 : MatchAt(s, p, MonthAlts[k].abbr)
        THEN Month(CHOOSE k \in 1..12 : MatchAt(s, p, MonthAlts[k].abbr))
        ELSE NoMonthDay

\* the optional leading group (?:(\d{1,2})(?:st|nd|rd|th)?\s+)? with nd digits
\* at position i, then the month
LeadAt(s, i, nd) ==
    LET AfterOrdinal(b) ==
            IF DigitRun(s, i) >= nd /\ b <= Len(s) /\ IsSpace(s[b])
            THEN MonthAt(s, SkipSpaces(s, b), SubSeq(s, i, i + nd - 1))
            ELSE NoMonthDay
        AfterDigits(a) ==
            AfterOrdinal(IF \E o \in OrdinalSuffixes : MatchAt(s, a, o) THEN a + 2 ELSE a)
    IN  AfterDigits(i + nd)

\* the Month Day pattern tried at position i: with a leading day of 2 digits,
\* of 1 digit, then without the leading group
MonthDayAt(s, i) ==
    FirstOk(LeadAt(s, i, 2), FirstOk(LeadAt(s, i, 1), MonthAt(s, i, << >>)))

\* lowerText.match(/(?:(\d{1,2})(?:st|nd|rd|th)?\s+)?(jan(?:uary)?|...)\s*(\d{1,2})?(?:st|nd|rd|th)?/i)
monthDayMatch(s) ==
    LET Among(starts) ==
            IF starts = {} THEN NoMonthDay ELSE MonthDayAt(s, Leftmost(starts))
    IN  Among({ i \in 1..Len(s) : MonthDayAt(s, i).ok })

\* text.match(/(\d{4})-(\d{2})-(\d{2})/): isoMatch[0], or Null
isoMatch(text) ==
    LET MatchFrom(i) == Str(SubSeq(text, i, i + 9))
        Among(starts) == IF starts = {} THEN Null ELSE MatchFrom(Leftmost(starts))
    IN  Among({ i \in 1..Len(text) : IsoShapeAt(text, i) })

SlashOptions == << <<2, 2>>, <<2, 1>>, <<1, 2>>, <<1, 1>> >>

\* text.match(/(\d{1,2})\/(\d{1,2})\/(\d{4})/): the local day of
\* new Date(parseInt(year), parseInt(first) - 1, parseInt(second)), or NoMatch
slashMatch(text) ==
    LET Hit(i, k) == SlashShapeAt(text, i, SlashOptions[k][1], SlashOptions[k][2])
        DayOf(sp) == LocalDay(sp.year, sp.first - 1, sp.second)
        Parts(i, n) == DayOf(SlashParts(text, i, n[1], n[2]))
        MatchFrom(i) == Parts(i, SlashOptions[Leftmost({ k \in 1..4 : Hit(i, k) })])
        Among(starts) == IF starts = {} THEN NoMatch ELSE MatchFrom(Leftmost(starts))
    IN  Among({ i \in 1..Len(text) : \E k \in 1..4 : Hit(i, k) })

\* parseNaturalDate(text), on the local day `today` in the zone tz
parseNaturalDate(text, today, tz) ==
    LET Ahead(daysUntil) == IF daysUntil <= 0 THEN daysUntil + 7 ELSE daysUntil
        until(targetDay) == Ahead(targetDay - getDay(today))
        NextDay(targetDay, rest) ==
            IF targetDay # NoMatch
            THEN Str(formatDay(today + until(targetDay) + 7)) ELSE rest
        ThisDay(targetDay, rest) ==
            IF targetDay # NoMatch
            THEN Str(formatDay(today + until(targetDay))) ELSE rest
        SetFullYear(year, c) == LocalDay(year, c.m - 1, c.d)
        ThisYearOrNext(year, date) ==
            IF date < today THEN SetFullYear(year + 1, CivilFromDays(date)) ELSE date
        DayOfMonth(year, month, dayText, rest) ==
            IF Len(dayText) > 0
            THEN Str(formatDay(ThisYearOrNext(year,
                         LocalDay(year, month, parseInt(dayText)))))
            ELSE rest
        MonthDay(md, rest) ==
            IF md.ok
            THEN DayOfMonth(CivilFromDays(today).y, md.month,
                            IF Len(md.lead) > 0 THEN md.lead ELSE md.trail, rest)
            ELSE rest
        Standard(parsedDate, rest) ==
            IF parsedDate.ok THEN Str(formatDate(parsedDate, tz)) ELSE rest
        Slash(day) == IF day # NoMatch THEN Str(formatDay(day)) ELSE Null
        Parse(lowerText) ==
            IF lowerText = <<"t","o","d","a","y">> THEN Str(formatDay(today))
            ELSE IF lowerText = <<"t","o","m","o","r","r","o","w">> THEN Str(formatDay(today + 1))
            ELSE IF includes(lowerText, <<"d","a","y"," ","a","f","t","e","r"," ","t","o","m","o","r","r","o","w">>) THEN Str(formatDay(today + 2))
            ELSE IF lowerText = <<"n","e","x","t"," ","w","e","e","k">> THEN Str(formatDay(today + 7))
            ELSE NextDay(WeekdayMatch(lowerText, <<"n","e","x","t">>),
                 ThisDay(WeekdayMatch(lowerText, <<"t","h","i","s">>),
                 MonthDay(monthDayMatch(lowerText),
                 Standard(DateParse(text, tz),
                 FirstMatch(isoMatch(text), Slash(slashMatch(text)))))))
    IN  IF Len(text) = 0 THEN Null ELSE Parse(trim(toLowerCase(text)))

----------------------------------------------------------------------------
(* JavaScript values.  A value is [t, s]: t is its type and s its text     *)
(* (the characters of a string, String(v) of a number).  Null stands for   *)
(* null, undefined and an absent key: the code only tests such values for  *)
(* truthiness.                                                             *)

Num(chars) == [t |-> "num", s |-> chars]
True == [t |-> "bool", s |-> <<"t","r","u","e">>]
Obj == [t |-> "obj", s |-> <<"[","o","b","j","e","c","t"," ","O","b","j","e","c","t","]">>]

\* ToBoolean
Truthy(v) ==
    CASE v.t = "null" -> FALSE
      [] v.t = "str" -> Len(v.s) > 0
      [] v.t = "num" -> v.s # <<"0">>
      [] v.t = "bool" -> v.s = <<"t","r","u","e">>
      [] OTHER -> TRUE

\* a || b
Or(a, b) == IF Truthy(a) THEN a ELSE b

Bool(b) == IF b THEN True ELSE Null

----------------------------------------------------------------------------
(* FIELD_CONFIG[field].validate.  A result is [valid, error, threw]: threw *)
(* is the TypeError of calling a string method on a value that is not a    *)
(* string.                                                                 *)

Valid == [valid |-> TRUE, error |-> "", threw |-> FALSE]
Invalid(error) == [valid |-> FALSE, error |-> error, threw |-> FALSE]
Threw == [valid |-> FALSE, error |-> "TypeError", threw |-> TRUE]

MinOwnerNameLength == 2
MaxOwnerNameLength == 50
MinPetNameLength == 1
MaxPetNameLength == 30
MaxDaysAhead == 90

\* /^[a-zA-Z\s\-']+$/.test(s)
OwnerNameChars(s) ==
    /\ Len(s) > 0
    /\ \A i \in 1..Len(s) : IsLetter(s[i]) \/ IsSpace(s[i]) \/ s[i] \in {"-", "'"}

validateOwnerName(value) ==
    IF ~Truthy(value) THEN Invalid("Name must be at least 2 characters")
    ELSE IF value.t # "str" THEN Threw
    ELSE IF Len(trim(value.s)) < MinOwnerNameLength
         THEN Invalid("Name must be at least 2 characters")
    ELSE IF Len(value.s) > MaxOwnerNameLength THEN Invalid("Name is too long")
    ELSE IF ~OwnerNameChars(value.s) THEN Invalid("Name should only contain letters")
    ELSE Valid

validatePetName(value) ==
    IF ~Truthy(value) THEN Invalid("Pet name is required")
    ELSE IF value.t # "str" THEN Threw
    ELSE IF Len(trim(value.s)) < MinPetNameLength THEN Invalid("Pet name is required")
    ELSE IF Len(value.s) > MaxPetNameLength THEN Invalid("Pet name is too long")
    ELSE Valid

validatePhoneNumber(value) ==
    LET Digits(n) ==
            IF n < MinPhoneDigits \/ n > MaxPhoneDigits
            THEN Invalid("Please provide a valid phone number with 10+ digits")
            ELSE Valid
    IN  IF ~Truthy(value) THEN Invalid("Phone number is required")
        ELSE IF value.t # "str" THEN Threw
        ELSE Digits(Len(stripNonDigits(value.s)))

\* new Date(value): a number or a boolean is a count of milliseconds from
\* the epoch (the small ones of the model fall in its first hour), an object
\* is parsed as the text "[object Object]"
NewDate(value, tz) ==
    CASE value.t = "str" -> DateParse(value.s, tz)
      [] value.t \in {"num", "bool"} -> DateAt(0)
      [] OTHER -> InvalidDate

validatePreferredDate(value, today, tz) ==
    LET Within(date, todayMidnight, maxDate) ==
            IF ~date.ok THEN Invalid("Invalid date format")
            ELSE IF date.h < todayMidnight.h THEN Invalid("Date cannot be in the past")
            ELSE IF date.h > maxDate.h THEN Invalid("Date must be within the next 90 days")
            ELSE Valid
    IN  IF ~Truthy(value) THEN Invalid("Date is required")
        ELSE Within(NewDate(value, tz), LocalMidnight(today, tz),
                    LocalMidnight(today + MaxDaysAhead, tz))

\* /^([01]?[0-9]|2[0-3]):[0-5][0-9]$/.test(s)
TimeShape(s) ==
    LET Minutes(p) == /\ Len(s) = p + 2
                   /\ s[p] = ":"
                   /\ s[p + 1] \in {"0", "1", "2", "3", "4", "5"}
                   /\ IsDigit(s[p + 2])
    IN  \/ Len(s) >= 1 /\ IsDigit(s[1]) /\ Minutes(2)
        \/ Len(s) >= 2 /\ s[1] \in {"0", "1"} /\ IsDigit(s[2]) /\ Minutes(3)
        \/ Len(s) >= 2 /\ s[1] = "2" /\ s[2] \in {"0", "1", "2", "3"} /\ Minutes(3)

validatePreferredTime(value) ==
    IF ~Truthy(value) THEN Invalid("Time is required")
    ELSE IF ~TimeShape(value.s) THEN Invalid("Invalid time format")
    ELSE Valid

\* AppointmentFlowService.validateField
validateField(fieldName, value, today, tz) ==
    CASE fieldName = "petOwnerName" -> validateOwnerName(value)
      [] fieldName = "petName" -> validatePetName(value)
      [] fieldName = "phoneNumber" -> validatePhoneNumber(value)
      [] fieldName = "preferredDate" -> validatePreferredDate(value, today, tz)
      [] fieldName = "preferredTime" -> validatePreferredTime(value)
      [] OTHER -> Valid

----------------------------------------------------------------------------
(* AppointmentFlowService                                                  *)

\* a field map: every required field, Null where the key is absent
NoFields == [f \in RequiredSet |-> Null]

\* a createBookingState whose default field map is not empty
createBookingStateStale(existingData) ==
    [isActive |-> TRUE,
     collectedFields |-> [existingData EXCEPT !["petName"] = Str(<<"R","e","x">>)],
     currentField |-> "null",
     isComplete |-> FALSE,
     isConfirming |-> FALSE,
     errorField |-> "null",
     lastError |-> "null",
     attempts |-> << >>]

\* createBookingState(existingData)
createBookingState(existingData) ==
    [isActive |-> TRUE,
     collectedFields |-> existingData,
     currentField |-> "null",
     isComplete |-> FALSE,
     isConfirming |-> FALSE,
     errorField |-> "null",
     lastError |-> "null",
     attempts |-> << >>]

\* the filter of getMissingFields: !value || (typeof value === 'string' && value.trim() === '')
IsMissing(value) == ~Truthy(value) \/ (value.t = "str" /\ Len(trim(value.s)) = 0)

\* getMissingFields(collectedFields), in the order of REQUIRED_FIELDS
getMissingFields(collectedFields) ==
    SelectSeq(REQUIRED_FIELDS, LAMBDA f : IsMissing(collectedFields[f]))

\* an isComplete that never finds the fields complete
isCompleteNever(collectedFields) == FALSE

\* an isComplete that finds any field map complete
isCompleteAlways(collectedFields) == TRUE

\* isComplete(collectedFields)
isComplete(collectedFields) == Len(getMissingFields(collectedFields)) = 0

\* getNextField(collectedFields).field, or "null"
\* getNextField taking the last missing field instead of the first
getNextFieldLast(collectedFields) ==
    LET Last(missing) == IF Len(missing) = 0 THEN "null" ELSE missing[Len(missing)]
    IN  Last(getMissingFields(collectedFields))

getNextField(collectedFields) ==
    LET First(missing) == IF Len(missing) = 0 THEN "null" ELSE missing[1]
    IN  First(getMissingFields(collectedFields))

\* a response text, by what it is made of: the kind of message, the field
\* whose prompt it carries and the acknowledgment put before it
Response(kind, field, ack) == [kind |-> kind, field |-> field, ack |-> ack]

\* a generatePrompt that finds no prompt text for the field
generatePromptUndefined(fieldName, isRetry) == Response("null", fieldName, "")

\* generatePrompt(fieldName, isRetry)
generatePrompt(fieldName, isRetry) ==
    Response(IF isRetry THEN "errorPrompt" ELSE "prompt", fieldName, "")

\* extractWithPatterns(message)
extractWithPatterns(message, today, tz) ==
    [f \in RequiredSet |->
        CASE f = "petOwnerName" -> FirstPattern(message, OwnerPatterns, 1)
          [] f = "petName" -> FirstPattern(message, PetPatterns, 1)
          [] f = "phoneNumber" -> extractPhone(message)
          [] f = "preferredDate" -> parseNaturalDate(message, today, tz)
          [] f = "preferredTime" -> parseNaturalTime(message)]

\* /\b(cancel|stop|nevermind|never mind|forget it|don't want)\b/i
CancelKeywords ==
    { <<"c","a","n","c","e","l">>, <<"s","t","o","p">>, <<"n","e","v","e","r","m","i","n","d">>, <<"n","e","v","e","r"," ","m","i","n","d">>, <<"f","o","r","g","e","t"," ","i","t">>,
      <<"d","o","n","'","t"," ","w","a","n","t">> }
\* /\b(restart|start over|begin again|reset)\b/i
RestartKeywords == { <<"r","e","s","t","a","r","t">>, <<"s","t","a","r","t"," ","o","v","e","r">>, <<"b","e","g","i","n"," ","a","g","a","i","n">>, <<"r","e","s","e","t">> }
\* /^(yes|yeah|yep|correct|right|confirm|that's right|looks good|perfect)/i
YesPrefixes ==
    { <<"y","e","s">>, <<"y","e","a","h">>, <<"y","e","p">>, <<"c","o","r","r","e","c","t">>, <<"r","i","g","h","t">>, <<"c","o","n","f","i","r","m">>,
      <<"t","h","a","t","'","s"," ","r","i","g","h","t">>, <<"l","o","o","k","s"," ","g","o","o","d">>, <<"p","e","r","f","e","c","t">> }
\* /^(no|nope|wrong|incorrect|change|fix|not right)/i
NoPrefixes ==
    { <<"n","o">>, <<"n","o","p","e">>, <<"w","r","o","n","g">>, <<"i","n","c","o","r","r","e","c","t">>, <<"c","h","a","n","g","e">>, <<"f","i","x">>,
      <<"n","o","t"," ","r","i","g","h","t">> }

wantsToCancelRegex(message) == TestWordBounded(toLowerCase(message), CancelKeywords)
wantsToRestartRegex(message) == TestWordBounded(toLowerCase(message), RestartKeywords)
confirmationRegex(message) ==
    LET Test(lowerMessage) ==
            IF TestPrefix(lowerMessage, YesPrefixes) THEN Str(<<"y","e","s">>)
            ELSE IF TestPrefix(lowerMessage, NoPrefixes) THEN Str(<<"n","o">>)
            ELSE Null
    IN  Test(toLowerCase(message))

\* What the AI adapter does in one call of analyzeMessage:
\*   "unavailable"  geminiService.isAvailable() is false
\*   "throws"       generateResponse rejects
\*   "unparseable"  the text returned is not JSON of an object
\*   "object"       JSON.parse gives an object with these properties
NoAI == [kind |-> "unavailable", fields |-> NoFields, wantsToCancel |-> Null,
         wantsToRestart |-> Null, confirmation |-> Null]
AIObject(fields, cancel, restart, confirmation) ==
    [kind |-> "object", fields |-> fields, wantsToCancel |-> cancel,
     wantsToRestart |-> restart, confirmation |-> confirmation]

\* a merge that takes the cancel flag from the AI adapter alone
mergeExtractionAICancelOnly(aiExtracted, regex) ==
    [fields |-> [f \in RequiredSet |->
                    IF regex.fields[f] # Null THEN regex.fields[f]
                    ELSE aiExtracted.fields[f]],
     wantsToCancel |-> aiExtracted.wantsToCancel,
     wantsToRestart |-> Or(aiExtracted.wantsToRestart, regex.wantsToRestart),
     confirmation |-> Or(aiExtracted.confirmation, regex.confirmation)]

\* a merge that takes the confirmation from the AI adapter alone
mergeExtractionAIConfirmationOnly(aiExtracted, regex) ==
    [fields |-> [f \in RequiredSet |->
                    IF regex.fields[f] # Null THEN regex.fields[f]
                    ELSE aiExtracted.fields[f]],
     wantsToCancel |-> Or(aiExtracted.wantsToCancel, regex.wantsToCancel),
     wantsToRestart |-> Or(aiExtracted.wantsToRestart, regex.wantsToRestart),
     confirmation |-> aiExtracted.confirmation]

\* a merge in which the value of the AI adapter overrides the regex value
mergeExtractionAIWins(aiExtracted, regex) ==
    [fields |-> [f \in RequiredSet |->
                    IF aiExtracted.fields[f] # Null THEN aiExtracted.fields[f]
                    ELSE regex.fields[f]],
     wantsToCancel |-> Or(aiExtracted.wantsToCancel, regex.wantsToCancel),
     wantsToRestart |-> Or(aiExtracted.wantsToRestart, regex.wantsToRestart),
     confirmation |-> Or(aiExtracted.confirmation, regex.confirmation)]

\* the regex-only result of analyzeMessage
regexOnly(message, today, tz) ==
    [fields |-> extractWithPatterns(message, today, tz),
     wantsToCancel |-> Bool(wantsToCancelRegex(message)),
     wantsToRestart |-> Bool(wantsToRestartRegex(message)),
     confirmation |-> confirmationRegex(message)]

\* the merge of analyzeMessage: { ...aiExtracted, ...regexExtracted, flags }
mergeExtraction(aiExtracted, regex) ==
    [fields |-> [f \in RequiredSet |->
                    IF regex.fields[f] # Null THEN regex.fields[f]
                    ELSE aiExtracted.fields[f]],
     wantsToCancel |-> Or(aiExtracted.wantsToCancel, regex.wantsToCancel),
     wantsToRestart |-> Or(aiExtracted.wantsToRestart, regex.wantsToRestart),
     confirmation |-> Or(aiExtracted.confirmation, regex.confirmation)]

\* an analyzeMessage whose fallback, after a failure of the AI adapter,
\* returns the regex fields and flags without the confirmation
analyzeMessageFallbackLosesConfirmation(message, ai, today, tz) ==
    LET Merge(regexExtracted) ==
            IF ai.kind = "object"
            THEN mergeExtraction(ai, regexExtracted)
            ELSE IF ai.kind = "unavailable" THEN regexExtracted
            ELSE [regexExtracted EXCEPT !.confirmation = Null]
    IN  Merge(regexOnly(message, today, tz))

\* analyzeMessage(message, conversationHistory, collectedFields)
analyzeMessage(message, ai, today, tz) ==
    LET Merge(regexExtracted) ==
            IF ai.kind = "object"
            THEN mergeExtraction(ai, regexExtracted)
            ELSE regexExtracted
    IN  Merge(regexOnly(message, today, tz))

----------------------------------------------------------------------------
(* The environment: the utterances, the AI adapter's answers, the SDK      *)
(* context, the day and the zone the server runs in.                       *)

M_cancel == <<"c","a","n","c","e","l">>
M_nevermind_startover == <<"n","e","v","e","r"," ","m","i","n","d",","," ","s","t","a","r","t"," ","o","v","e","r">>
M_startover == <<"s","t","a","r","t"," ","o","v","e","r">>
M_yes == <<"y","e","s">>
M_no_change == <<"n","o",","," ","l","e","t","'","s"," ","c","h","a","n","g","e"," ","s","o","m","e","t","h","i","n","g">>
M_yes_but_cancel == <<"y","e","s"," ","b","u","t"," ","c","a","n","c","e","l"," ","i","t">>
M_ann_rex == <<"I"," ","a","m"," ","A","n","n",","," ","m","y"," ","d","o","g"," ","i","s"," ","c","a","l","l","e","d"," ","R","e","x">>
M_phone == <<"5","5","5","-","1","2","3","-","4","5","6","7">>
M_tomorrow_10am == <<"t","o","m","o","r","r","o","w"," ","a","t"," ","1","0","a","m">>
M_past_date == <<"2","0","2","0","-","0","1","-","0","1">>
M_book == <<"I"," ","w","a","n","t"," ","t","o"," ","b","o","o","k"," ","a","n"," ","a","p","p","o","i","n","t","m","e","n","t">>
M_book_r2d2 == <<"b","o","o","k"," ","a"," ","v","i","s","i","t",","," ","m","y"," ","n","a","m","e"," ","i","s"," ","R","2","D","2">>
M_book_all == <<"B","o","o","k"," ","a"," ","v","i","s","i","t"," ","t","h","i","s"," ","M","o","n","d","a","y"," ","1","0","a","m",","," ","I"," ","a","m"," ","A","n","n",","," ","m","y"," ","d","o","g"," ","i","s"," ","c","a","l","l","e","d"," ","R","e","x",","," ","5","5","5","-","1","2","3","-","4","5","6","7">>

M_john_buddy == <<"I","'","m"," ","J","o","h","n"," ","a","n","d"," ","m","y"," ","d","o","g"," ","i","s"," ","B","u","d","d","y">>
M_123 == <<"1","2","3">>
M_tomorrow == <<"t","o","m","o","r","r","o","w">>
M_10am == <<"1","0","a","m">>

\* the messages a client sends (trimmed and not empty: sendMessageValidation)
Messages ==
    { M_cancel, M_nevermind_startover, M_startover, M_yes, M_no_change,
      M_yes_but_cancel, M_ann_rex, M_phone, M_tomorrow_10am, M_past_date,
      M_book, M_book_r2d2, M_book_all }

\* the utterances given to processMessage when the engine is driven alone
FlowMessages == Messages \cup { M_john_buddy, M_123, M_tomorrow, M_10am }

\* the local days and the zones (hours east of UTC) of the server
Todays == { DaysFromCivil(2026, 11, 1) }
Zones == { 0 }

AI_throws == [NoAI EXCEPT !.kind = "throws"]
AI_cancel == AIObject(NoFields, True, Null, Null)
AI_restart == AIObject(NoFields, Null, True, Null)
AI_yes == AIObject(NoFields, Null, Null, Str(<<"y","e","s">>))
\* {"petName": "Rex", "phoneNumber": "555-123-4567"}
AI_fields ==
    AIObject([NoFields EXCEPT !["petName"] = Str(<<"R","e","x">>),
                              !["phoneNumber"] = Str(<<"5","5","5","-","1","2","3","-","4","5","6","7">>)],
             Null, Null, Null)

\* the text returned holds no JSON object
AI_unparseable == [NoAI EXCEPT !.kind = "unparseable"]
\* {"petOwnerName": 12345}
AI_malformed ==
    AIObject([NoFields EXCEPT !["petOwnerName"] = Num(<<"1","2","3","4","5">>)], Null, Null, Null)

\* what the AI adapter may do in a turn
AIOutcomes == { NoAI, AI_throws, AI_cancel, AI_restart, AI_yes, AI_fields, AI_malformed }

FlowAIOutcomes == AIOutcomes \cup { AI_unparseable, AI_malformed }

\* context.userName and context.petName of the SDK configuration
NoContext == [userName |-> Null, petName |-> Null]
Contexts == { NoContext, [userName |-> Str(<<"X">>), petName |-> Null] }

Sessions == { "sess_0001" }

Clocks == Todays \X Zones

\* analyzeMessage and validateField, computed once for every input of the
\* model (a set of entries, the arguments first and the result last) and
\* looked up by the operators below
AnalyzeMemo ==
    { <<m, ai, e, analyzeMessage(m, ai, e[1], e[2])>> :
        m \in FlowMessages, ai \in FlowAIOutcomes, e \in Clocks }

Analysis(message, ai, today, tz) ==
    (CHOOSE p \in AnalyzeMemo :
        p[1] = message /\ p[2] = ai /\ p[3] = <<today, tz>>)[4]

\* the values validateField may meet: what an analysis extracts and what
\* the context carries
Values ==
    UNION { { p[4].fields[f] : f \in RequiredSet } : p \in AnalyzeMemo }
    \cup UNION { { c.userName, c.petName } : c \in Contexts }

ValidateMemo ==
    { <<f, v, e, validateField(f, v, e[1], e[2])>> :
        f \in RequiredSet, v \in Values, e \in Clocks }

Validation(fieldName, value, today, tz) ==
    (CHOOSE p \in ValidateMemo :
        p[1] = fieldName /\ p[2] = value /\ p[3] = <<today, tz>>)[4]

----------------------------------------------------------------------------
(* AppointmentFlowService.processMessage                                   *)

\* formatTimeForDisplay(timeStr) throws a TypeError when timeStr is not a
\* string (no split) or has no ':' (minutes is undefined)
formatTimeThrows(value) == value.t # "str" \/ ~(\E i \in 1..Len(value.s) : value.s[i] = ":")

\* generateConfirmationMessage(collectedFields) throws
confirmationThrows(collectedFields) ==
    /\ Truthy(collectedFields["preferredTime"])
    /\ formatTimeThrows(collectedFields["preferredTime"])

\* getAcknowledgment(acknowledgedFields), acknowledgedFields the required
\* fields with a truthy extracted value: the phrase of the one field, or
\* the generic one
getAcknowledgment(extracted) ==
    LET Phrase(fields) ==
            IF Len(fields) = 0 THEN ""
            ELSE IF Len(fields) >= 2 THEN "generic"
            ELSE fields[1]
    IN  Phrase(SelectSeq(REQUIRED_FIELDS, LAMBDA f : Truthy(extracted.fields[f])))

\* the collection loop storing a candidate even when its validation failed
RECURSIVE collectLoopKeepsInvalid(_, _, _, _, _)
collectLoopKeepsInvalid(k, extracted, acc, today, tz) ==
    LET Checked(field, value, validation) ==
            IF validation.threw THEN [acc EXCEPT !.threw = TRUE]
            ELSE IF validation.valid
                 THEN collectLoopKeepsInvalid(k + 1, extracted,
                          [acc EXCEPT !.updatedFields[field] = value,
                                      !.hasNewData = TRUE], today, tz)
                 ELSE collectLoopKeepsInvalid(k + 1, extracted,
                          [acc EXCEPT !.updatedFields[field] = value,
                                      !.invalidField = field,
                                      !.validationError = validation.error], today, tz)
        Step(field, value) ==
            IF ~Truthy(value) THEN collectLoopKeepsInvalid(k + 1, extracted, acc, today, tz)
            ELSE Checked(field, value, Validation(field, value, today, tz))
        Field(field) == Step(field, extracted.fields[field])
    IN  IF k > Len(REQUIRED_FIELDS) \/ acc.threw THEN acc
        ELSE Field(REQUIRED_FIELDS[k])

\* the loop of processMessage over REQUIRED_FIELDS, from field k on
RECURSIVE collectLoop(_, _, _, _, _)
collectLoop(k, extracted, acc, today, tz) ==
    LET Checked(field, value, validation) ==
            IF validation.threw THEN [acc EXCEPT !.threw = TRUE]
            ELSE IF validation.valid
                 THEN collectLoop(k + 1, extracted,
                          [acc EXCEPT !.updatedFields[field] = value,
                                      !.hasNewData = TRUE], today, tz)
                 ELSE collectLoop(k + 1, extracted,
                          [acc EXCEPT !.invalidField = field,
                                      !.validationError = validation.error], today, tz)
        Step(field, value) ==
            IF ~Truthy(value) THEN collectLoop(k + 1, extracted, acc, today, tz)
            ELSE Checked(field, value, Validation(field, value, today, tz))
        Field(field) == Step(field, extracted.fields[field])
    IN  IF k > Len(REQUIRED_FIELDS) \/ acc.threw THEN acc
        ELSE Field(REQUIRED_FIELDS[k])

Result(state, response, action) ==
    [threw |-> FALSE, state |-> state, response |-> response, action |-> action]
\* processMessage rejects: the controller's catch (flowError) takes over
Rejected(bookingState) ==
    [threw |-> TRUE, state |-> bookingState, response |-> Response("none", "null", ""),
     action |-> "none"]

\* the field-collection part of processMessage
collectFields(extracted, bookingState, today, tz) ==
    LET Prompt(newState, nextField, ack) ==
            Result([newState EXCEPT !.currentField = nextField],
                   Response("prompt", nextField, ack), "collecting")
        Answer(acc, newState) ==
            IF isComplete(acc.updatedFields)
            THEN IF confirmationThrows(acc.updatedFields) THEN Rejected(bookingState)
                 ELSE Result([newState EXCEPT !.isConfirming = TRUE],
                             Response("confirmation", "null", ""), "confirming")
            ELSE IF acc.invalidField # "null"
            THEN Result([newState EXCEPT !.errorField = acc.invalidField,
                                         !.lastError = acc.validationError],
                        generatePrompt(acc.invalidField, TRUE), "collecting")
            ELSE Prompt(newState, getNextField(acc.updatedFields),
                        IF acc.hasNewData THEN getAcknowledgment(extracted) ELSE "")
        Collected(acc) ==
            IF acc.threw THEN Rejected(bookingState)
            ELSE Answer(acc, [bookingState EXCEPT !.collectedFields = acc.updatedFields])
    IN  Collected(collectLoop(1, extracted,
                      [updatedFields |-> bookingState.collectedFields,
                       hasNewData |-> FALSE, invalidField |-> "null",
                       validationError |-> "null", threw |-> FALSE], today, tz))

\* a processMessage that looks at the restart flag before the cancel flag
processMessageRestartFirst(message, bookingState, ai, today, tz) ==
    LET Handle(extracted) ==
            IF Truthy(extracted.wantsToRestart)
            THEN Result(createBookingState(NoFields),
                        Response("restarted", "petOwnerName", ""), "restarted")
            ELSE IF Truthy(extracted.wantsToCancel)
            THEN Result([bookingState EXCEPT !.isActive = FALSE],
                        Response("cancelled", "null", ""), "cancelled")
            ELSE IF bookingState.isConfirming /\ Truthy(extracted.confirmation)
            THEN IF extracted.confirmation = Str(<<"y","e","s">>)
                 THEN Result([bookingState EXCEPT !.isComplete = TRUE],
                             Response("null", "null", ""), "confirmed")
                 ELSE Result([bookingState EXCEPT !.isConfirming = FALSE],
                             Response("editPrompt", "null", ""), "edit_requested")
            ELSE collectFields(extracted, bookingState, today, tz)
    IN  Handle(Analysis(message, ai, today, tz))

\* a processMessage that closes the booking when it is confirmed
processMessageClosing(message, bookingState, ai, today, tz) ==
    LET Handle(extracted) ==
            IF Truthy(extracted.wantsToCancel)
            THEN Result([bookingState EXCEPT !.isActive = FALSE],
                        Response("cancelled", "null", ""), "cancelled")
            ELSE IF Truthy(extracted.wantsToRestart)
            THEN Result(createBookingState(NoFields),
                        Response("restarted", "petOwnerName", ""), "restarted")
            ELSE IF bookingState.isConfirming /\ Truthy(extracted.confirmation)
            THEN IF extracted.confirmation = Str(<<"y","e","s">>)
                 THEN Result([bookingState EXCEPT !.isComplete = TRUE, !.isActive = FALSE],
                             Response("null", "null", ""), "confirmed")
                 ELSE Result([bookingState EXCEPT !.isConfirming = FALSE],
                             Response("editPrompt", "null", ""), "edit_requested")
            ELSE collectFields(extracted, bookingState, today, tz)
    IN  Handle(Analysis(message, ai, today, tz))

\* processMessage(message, bookingState, conversationHistory)
processMessage(message, bookingState, ai, today, tz) ==
    LET Handle(extracted) ==
            IF Truthy(extracted.wantsToCancel)
            THEN Result([bookingState EXCEPT !.isActive = FALSE],
                        Response("cancelled", "null", ""), "cancelled")
            ELSE IF Truthy(extracted.wantsToRestart)
            THEN Result(createBookingState(NoFields),
                        Response("restarted", "petOwnerName", ""), "restarted")
            ELSE IF bookingState.isConfirming /\ Truthy(extracted.confirmation)
            THEN IF extracted.confirmation = Str(<<"y","e","s">>)
                 THEN Result([bookingState EXCEPT !.isComplete = TRUE],
                             Response("null", "null", ""), "confirmed")
                 ELSE Result([bookingState EXCEPT !.isConfirming = FALSE],
                             Response("editPrompt", "null", ""), "edit_requested")
            ELSE collectFields(extracted, bookingState, today, tz)
    IN  Handle(Analysis(message, ai, today, tz))

----------------------------------------------------------------------------
(* chatController                                                          *)

\* APPOINTMENT_KEYWORDS of the controller
APPOINTMENT_KEYWORDS ==
    { <<"a","p","p","o","i","n","t","m","e","n","t">>, <<"b","o","o","k">>, <<"s","c","h","e","d","u","l","e">>, <<"v","i","s","i","t">>, <<"s","e","e"," ","t","h","e"," ","v","e","t">>,
      <<"c","h","e","c","k","u","p">>, <<"c","h","e","c","k","-","u","p">>, <<"c","h","e","c","k"," ","u","p">>, <<"c","o","n","s","u","l","t","a","t","i","o","n">>,
      <<"b","r","i","n","g"," ","m","y"," ","p","e","t">>, <<"b","r","i","n","g"," ","m","y"," ","d","o","g">>, <<"b","r","i","n","g"," ","m","y"," ","c","a","t">>,
      <<"a","v","a","i","l","a","b","l","e"," ","t","i","m","e","s">>, <<"a","v","a","i","l","a","b","l","e"," ","s","l","o","t","s">>, <<"w","h","e","n"," ","c","a","n"," ","i">>,
      <<"n","e","e","d"," ","t","o"," ","s","e","e">>, <<"w","a","n","t"," ","t","o"," ","s","e","e">>, <<"m","a","k","e"," ","a","n"," ","a","p","p","o","i","n","t","m","e","n","t">>,
      <<"b","o","o","k"," ","a"," ","v","i","s","i","t">>, <<"s","c","h","e","d","u","l","e"," ","a"," ","v","i","s","i","t">>, <<"v","e","t","e","r","i","n","a","r","y"," ","v","i","s","i","t">> }

\* APPOINTMENT_INTENT_KEYWORDS of the AI adapter
APPOINTMENT_INTENT_KEYWORDS ==
    { <<"b","o","o","k">>, <<"a","p","p","o","i","n","t","m","e","n","t">>, <<"s","c","h","e","d","u","l","e">>, <<"v","i","s","i","t">>, <<"c","o","n","s","u","l","t","a","t","i","o","n">>,
      <<"c","h","e","c","k","u","p">>, <<"c","h","e","c","k","-","u","p">>, <<"c","h","e","c","k"," ","u","p">>, <<"s","e","e"," ","t","h","e"," ","v","e","t">>, <<"s","e","e"," ","a"," ","v","e","t">>,
      <<"s","e","e"," ","d","o","c","t","o","r">>, <<"b","r","i","n","g"," ","m","y"," ","p","e","t">>, <<"b","r","i","n","g"," ","m","y"," ","d","o","g">>, <<"b","r","i","n","g"," ","m","y"," ","c","a","t">>,
      <<"a","v","a","i","l","a","b","l","e"," ","t","i","m","e","s">>, <<"a","v","a","i","l","a","b","l","e"," ","s","l","o","t","s">>, <<"w","h","e","n"," ","c","a","n"," ","i"," ","c","o","m","e">>,
      <<"w","h","e","n"," ","c","a","n"," ","i"," ","v","i","s","i","t">>, <<"m","a","k","e"," ","a","n"," ","a","p","p","o","i","n","t","m","e","n","t">>, <<"b","o","o","k"," ","a"," ","v","i","s","i","t">>,
      <<"s","c","h","e","d","u","l","e"," ","a"," ","v","i","s","i","t">>, <<"v","e","t","e","r","i","n","a","r","y"," ","v","i","s","i","t">>, <<"v","e","t"," ","a","p","p","o","i","n","t","m","e","n","t">>,
      <<"c","l","i","n","i","c"," ","v","i","s","i","t">>, <<"n","e","e","d"," ","t","o"," ","s","e","e">>, <<"w","a","n","t"," ","t","o"," ","s","e","e">>, <<"c","a","n"," ","i"," ","c","o","m","e">>,
      <<"e","x","a","m","i","n","a","t","i","o","n">>, <<"a","n","n","u","a","l"," ","c","h","e","c","k","u","p">> }

\* detectAppointmentIntent(message) of the controller
detectAppointmentIntent(message) ==
    \E keyword \in APPOINTMENT_KEYWORDS : includes(toLowerCase(message), keyword)

\* geminiService.detectAppointmentIntent(userMessage), called when the
\* adapter is available; aiIntent is the model's answer being 'true'
aiDetectAppointmentIntent(message, aiIntent) ==
    \/ \E keyword \in APPOINTMENT_INTENT_KEYWORDS : includes(toLowerCase(message), keyword)
    \/ aiIntent

\* the two keyword tests, computed once for every message of the model
IntentMemo ==
    { <<m, aiIntent, detectAppointmentIntent(m), aiDetectAppointmentIntent(m, aiIntent)>> :
        m \in Messages, aiIntent \in BOOLEAN }

\* the entry <<message, aiIntent, controller's test, adapter's answer>>
Intent(message, aiIntent) ==
    CHOOSE p \in IntentMemo : p[1] = message /\ p[2] = aiIntent

\* bookingStates.get(sessionId) || null: null is a state that is not active
NullState == [isActive |-> FALSE]
getBookingState(map, sessionId) ==
    IF sessionId \in DOMAIN map THEN map[sessionId] ELSE NullState

\* a setBookingState that stores an active state and otherwise leaves the
\* Map as it is
setBookingStateNoDelete(map, sessionId, state) ==
    IF state.isActive
    THEN [x \in DOMAIN map \cup {sessionId} |-> IF x = sessionId THEN state ELSE map[x]]
    ELSE map

\* setBookingState(sessionId, state)
setBookingState(map, sessionId, state) ==
    IF state.isActive
    THEN [x \in DOMAIN map \cup {sessionId} |-> IF x = sessionId THEN state ELSE map[x]]
    ELSE [x \in DOMAIN map \ {sessionId} |-> map[x]]

\* initialData of sendMessage: the conversation's names, then every truthy
\* extracted property that is not a flag
initialDataOf(conv, extracted) ==
    [f \in RequiredSet |->
        IF Truthy(extracted.fields[f]) THEN extracted.fields[f]
        ELSE IF f = "petOwnerName" THEN Or(conv.userName, Null)
        ELSE IF f = "petName" THEN Or(conv.petName, Null)
        ELSE Null]

\* a start that asks for the confirmation whatever the fields are
startStateConfirming(initialData) ==
    [createBookingState(initialData) EXCEPT !.isConfirming = TRUE]

\* the booking state sendMessage builds when it detects the intent
startState(initialData) ==
    IF isComplete(initialData)
    THEN [createBookingState(initialData) EXCEPT !.isConfirming = TRUE]
    ELSE createBookingState(initialData)

----------------------------------------------------------------------------
(* The server as a state machine.                                          *)

VARIABLES
    bookingStates,   \* the Map of the controller: sessionId -> booking state
    conversation,    \* sessionId -> the Conversation document, if created
    context,         \* the context the SDK sends with every message
    serverDay,       \* the local day of the server
    serverZone,      \* the zone of the server, hours east of UTC
    lastTurn,        \* history: what the last request did
    flow,            \* the engine driven alone: the last call of processMessage
    requests,        \* the requests of a session that are being handled
    dateCase         \* the date functions driven alone: the last call

vars == <<bookingStates, conversation, context, serverDay, serverZone, lastTurn,
          flow, requests, dateCase>>

\* what the controller's handlers, run one request at a time, leave alone
aside == <<flow, requests, dateCase>>

NoConversation == [created |-> FALSE, userName |-> Null, petName |-> Null, isActive |-> FALSE]

NoResponse == Response("none", "null", "")

\* the record of a request: the handler and its branch (op), whether the
\* flow threw, the action of processMessage, the reply (aiReply), and the call
\* of createAppointmentFromFields: "none", "ok" or "failed", with the
\* fields it was given
Turn(op, threw, action, response, created, fields) ==
    [op |-> op, threw |-> threw, action |-> action, response |-> response,
     created |-> created, fields |-> fields]

\* a call of processMessage: the state it was given, the utterance, what the
\* AI adapter did, and the result; state is the booking state the caller
\* holds afterwards
FlowCall(state, before, message, ai, result) ==
    [state |-> state, before |-> before, message |-> message, ai |-> ai,
     result |-> result]

NoFlow ==
    FlowCall(NullState, NullState, << >>, NoAI, Result(NullState, NoResponse, "none"))

NoDateCase == [op |-> "none"]

Init ==
    /\ bookingStates = [x \in {} |-> NullState]
    /\ conversation = [s \in Sessions |-> NoConversation]
    /\ context \in Contexts
    /\ serverDay \in Todays
    /\ serverZone \in Zones
    /\ lastTurn = Turn("none", FALSE, "none", NoResponse, "none", NoFields)
    /\ flow = NoFlow
    /\ requests = << >>
    /\ dateCase = NoDateCase

\* Conversation.findOrCreate(sessionId, defaults) of initializeSession
findOrCreate(conv, ctx) ==
    IF conv.created THEN conv
    ELSE [created |-> TRUE, userName |-> Or(ctx.userName, Null),
          petName |-> Or(ctx.petName, Null), isActive |-> TRUE]

\* sendMessage: "Update conversation context if provided"
updateContext(conv, ctx) ==
    [conv EXCEPT !.userName = IF Truthy(ctx.userName) /\ ~Truthy(conv.userName)
                              THEN ctx.userName ELSE @,
                 !.petName = IF Truthy(ctx.petName) /\ ~Truthy(conv.petName)
                             THEN ctx.petName ELSE @]

\* the Conversation document sendMessage works on
conversationOf(s) == updateContext(findOrCreate(conversation[s], context), context)

\* sendMessage while a booking is active: processMessage, then the switch
\* on the action; createOk says whether appointment.save() resolves
BookingTurn(s, message, ai, createOk) ==
    LET Switch(result, stored) ==
            IF result.action = "confirmed"
            THEN IF createOk
                 THEN /\ bookingStates' = setBookingState(stored, s, NullState)
                      /\ lastTurn' = Turn("booking", FALSE, result.action,
                                          Response("success", "null", ""),
                                          "ok", result.state.collectedFields)
                 ELSE /\ bookingStates' =
                             setBookingState(stored, s,
                                 [result.state EXCEPT !.isConfirming = FALSE])
                      /\ lastTurn' = Turn("booking", FALSE, result.action,
                                          Response("creationFailed", "null", ""),
                                          "failed", result.state.collectedFields)
            ELSE /\ bookingStates' =
                        IF result.action = "cancelled"
                        THEN setBookingState(stored, s, NullState)
                        ELSE stored
                 /\ lastTurn' = Turn("booking", FALSE, result.action, result.response,
                                     "none", NoFields)
        Processed(result) ==
            IF result.threw
            THEN /\ bookingStates' = bookingStates
                 /\ lastTurn' = Turn("booking", TRUE, "none",
                                     Response("flowError", "null", ""), "none", NoFields)
            ELSE Switch(result, setBookingState(bookingStates, s, result.state))
        Active(bookingState) ==
            /\ bookingState.isActive
            /\ Processed(processMessage(message, bookingState, ai, serverDay, serverZone))
    IN  /\ Active(getBookingState(bookingStates, s))
        /\ conversation' = [conversation EXCEPT ![s] = conversationOf(s)]
        /\ UNCHANGED <<context, serverDay, serverZone, aside>>

\* sendMessage with no active booking and the intent detected: the booking
\* starts from the conversation's names and the first message's extraction
StartTurn(s, message, ai, aiIntent) ==
    LET Detected(intent) == intent[3] \/ (ai.kind # "unavailable" /\ intent[4])
        Start(initialData) ==
            IF isComplete(initialData)
            THEN IF confirmationThrows(initialData)
                 THEN /\ bookingStates' = bookingStates
                      /\ lastTurn' = Turn("start", TRUE, "none", NoResponse, "none", NoFields)
                 ELSE /\ bookingStates' =
                             setBookingState(bookingStates, s, startState(initialData))
                      /\ lastTurn' = Turn("start", FALSE, "none",
                                          Response("confirmation", "null", ""),
                                          "none", NoFields)
            ELSE /\ bookingStates' =
                        setBookingState(bookingStates, s, startState(initialData))
                 /\ lastTurn' = Turn("start", FALSE, "none",
                                     Response("startPrompt", getNextField(initialData), ""),
                                     "none", NoFields)
    IN  /\ ~getBookingState(bookingStates, s).isActive
        /\ Detected(Intent(message, aiIntent))
        /\ Start(initialDataOf(conversationOf(s),
                               Analysis(message, ai, serverDay, serverZone)))
        /\ conversation' = [conversation EXCEPT ![s] = conversationOf(s)]
        /\ UNCHANGED <<context, serverDay, serverZone, aside>>

\* sendMessage with no active booking and no intent: the regular chat
ChatTurn(s, message, ai, aiIntent) ==
    LET Detected(intent) == intent[3] \/ (ai.kind # "unavailable" /\ intent[4])
    IN  /\ ~getBookingState(bookingStates, s).isActive
        /\ ~Detected(Intent(message, aiIntent))
        /\ conversation' = [conversation EXCEPT ![s] = conversationOf(s)]
        /\ bookingStates' = bookingStates
        /\ lastTurn' = Turn("chat", FALSE, "none", Response("chat", "null", ""), "none", NoFields)
        /\ UNCHANGED <<context, serverDay, serverZone, aside>>

\* POST /chat/message: initializeSession, then sendMessage, which takes one
\* of its three branches; createOk is the outcome of appointment.save() and
\* aiIntent the answer of the adapter's intent model
sendMessage(s, message, ai) ==
    \/ \E createOk \in BOOLEAN : BookingTurn(s, message, ai, createOk)
    \/ \E aiIntent \in BOOLEAN : StartTurn(s, message, ai, aiIntent)
    \/ \E aiIntent \in BOOLEAN : ChatTurn(s, message, ai, aiIntent)

\* POST /chat/cancel-booking/:sessionId
cancelBooking(s) ==
    /\ getBookingState(bookingStates, s).isActive
    /\ bookingStates' = setBookingState(bookingStates, s, NullState)
    /\ lastTurn' = Turn("cancelBooking", FALSE, "none", NoResponse, "none", NoFields)
    /\ UNCHANGED <<conversation, context, serverDay, serverZone, aside>>

\* POST /chat/close/:sessionId
closeConversation(s) ==
    /\ conversation[s].created
    /\ bookingStates' = setBookingState(bookingStates, s, NullState)
    /\ conversation' = [conversation EXCEPT ![s].isActive = FALSE]
    /\ lastTurn' = Turn("close", FALSE, "none", NoResponse, "none", NoFields)
    /\ UNCHANGED <<context, serverDay, serverZone, aside>>

Next ==
    \/ \E s \in Sessions, message \in Messages, ai \in AIOutcomes :
            sendMessage(s, message, ai)
    \/ \E s \in Sessions : cancelBooking(s)
    \/ \E s \in Sessions : closeConversation(s)

Spec == Init /\ [][Next]_vars

----------------------------------------------------------------------------
(* The engine driven alone: processMessage applied turn after turn to the  *)
(* state it returned, as its caller does, from createBookingState().       *)

\* the turns tried: every utterance without the AI adapter, and the
\* utterances that carry a signal with every answer of the adapter
FlowInputs ==
    (FlowMessages \X { NoAI })
    \cup ({ M_yes, M_no_change, M_cancel, M_startover, M_phone, M_past_date }
          \X FlowAIOutcomes)

FlowInit ==
    /\ bookingStates = [x \in {} |-> NullState]
    /\ conversation = [s \in Sessions |-> NoConversation]
    /\ context = NoContext
    /\ serverDay \in Todays
    /\ serverZone \in Zones
    /\ lastTurn = Turn("none", FALSE, "none", NoResponse, "none", NoFields)
    /\ flow = FlowCall(createBookingState(NoFields), NullState, << >>, NoAI,
                       Result(NullState, NoResponse, "none"))
    /\ requests = << >>
    /\ dateCase = NoDateCase

besideFlow ==
    <<bookingStates, conversation, context, serverDay, serverZone, lastTurn,
      requests, dateCase>>

\* the last turn answered 'confirmed' and the caller has not yet created the
\* appointment
FlowPending == flow.result.action = "confirmed" /\ flow.state = flow.result.state

\* a turn: processMessage(message, bookingState, history); the caller keeps
\* result.state, or the state it had when the call rejects
FlowTurn(message, ai) ==
    LET Called(result) ==
            flow' = FlowCall(IF result.threw THEN flow.state ELSE result.state,
                             flow.state, message, ai, result)
    IN  /\ flow.state.isActive
        /\ ~FlowPending
        /\ Called(processMessage(message, flow.state, ai, serverDay, serverZone))
        /\ UNCHANGED besideFlow

\* after 'confirmed' the caller creates the appointment and drops the state
FlowCreated ==
    /\ FlowPending
    /\ flow' = [flow EXCEPT !.state = NullState]
    /\ UNCHANGED besideFlow

\* or the creation fails and the caller resets isConfirming
FlowCreationFailed ==
    /\ FlowPending
    /\ flow' = [flow EXCEPT !.state.isConfirming = FALSE]
    /\ UNCHANGED besideFlow

\* a new booking, from createBookingState()
FlowBegin ==
    /\ ~flow.state.isActive
    /\ flow' = FlowCall(createBookingState(NoFields), NullState, << >>, NoAI,
                        Result(NullState, NoResponse, "none"))
    /\ UNCHANGED besideFlow

FlowNext ==
    \/ \E input \in FlowInputs : FlowTurn(input[1], input[2])
    \/ FlowCreated
    \/ FlowCreationFailed
    \/ FlowBegin

FlowSpec == FlowInit /\ [][FlowNext]_vars

----------------------------------------------------------------------------
(* Properties of processMessage, checked on every turn of FlowSpec.        *)

\* the utterances that match the cancel, the restart and the negative
\* expressions of analyzeMessage
CancelUtterances == { m \in FlowMessages : wantsToCancelRegex(m) }
RestartUtterances == { m \in FlowMessages : wantsToRestartRegex(m) }
NegativeUtterances == { m \in FlowMessages : confirmationRegex(m) = Str(<<"n","o">>) }
AffirmativeUtterances == { m \in FlowMessages : confirmationRegex(m) = Str(<<"y","e","s">>) }

\* a turn has been processed, on an active booking state
FlowTurned == flow.before.isActive

\* C1: a turn whose utterance matches a cancel keyword, on any active state
\* and whatever the AI adapter does, returns action 'cancelled' and a state
\* with isActive = false
C1_CancelKeywordCancels ==
    FlowTurned /\ flow.message \in CancelUtterances
        => /\ ~flow.result.threw
           /\ flow.result.action = "cancelled"
           /\ ~flow.result.state.isActive

\* a confirming state, the utterance "cancel" and an AI adapter that reads a
\* confirmation 'yes' in it: the turn is cancelled
C1_Witness ==
    /\ flow.message = M_cancel /\ flow.ai = AI_yes
    /\ flow.before.isActive /\ flow.before.isConfirming
    /\ flow.result.action = "cancelled" /\ ~flow.state.isActive

\* C2, as stated: a turn whose utterance matches a restart keyword returns
\* action 'restarted' and a state whose collectedFields is empty
C2_RestartKeywordRestarts ==
    FlowTurned /\ flow.message \in RestartUtterances
        => /\ flow.result.action = "restarted"
           /\ flow.result.state.collectedFields = NoFields

\* whether the AI adapter's answer carries a truthy wantsToCancel
AIWantsToCancel(ai) == ai.kind = "object" /\ Truthy(ai.wantsToCancel)

\* C2, amended: a turn whose utterance matches a restart keyword and no
\* cancel keyword, the AI adapter reporting no wantsToCancel, returns action
\* 'restarted' and a state whose collectedFields is empty
C2_RestartWithoutCancelRestarts ==
    ( /\ FlowTurned /\ flow.message \in RestartUtterances
      /\ flow.message \notin CancelUtterances /\ ~AIWantsToCancel(flow.ai) )
        => /\ ~flow.result.threw
           /\ flow.result.action = "restarted"
           /\ flow.result.state.collectedFields = NoFields
           /\ flow.result.state.isActive /\ ~flow.result.state.isConfirming

\* "start over" on a state that holds fields empties them
C2_Witness ==
    /\ flow.message = M_startover /\ flow.ai = AI_fields
    /\ flow.before.isActive /\ flow.before.collectedFields # NoFields
    /\ flow.result.action = "restarted" /\ flow.state.collectedFields = NoFields

\* the signals of the last turn's utterance, as analyzeMessage merges them
FlowExtracted == Analysis(flow.message, flow.ai, serverDay, serverZone)

\* C5: of the signals of a turn one handler runs, in the order cancel,
\* restart, confirmation (when the state is confirming), field collection;
\* a turn handled as cancel or as confirmation leaves collectedFields as it
\* was
C5_HandlerPrecedence ==
    FlowTurned =>
        /\ Truthy(FlowExtracted.wantsToCancel) => flow.result.action = "cancelled"
        /\ ( /\ ~Truthy(FlowExtracted.wantsToCancel)
             /\ Truthy(FlowExtracted.wantsToRestart) )
               => flow.result.action = "restarted"
        /\ ( /\ ~Truthy(FlowExtracted.wantsToCancel)
             /\ ~Truthy(FlowExtracted.wantsToRestart)
             /\ flow.before.isConfirming /\ Truthy(FlowExtracted.confirmation) )
               => /\ flow.result.action \in {"confirmed", "edit_requested"}
                  /\ flow.result.action = "confirmed"
                        <=> FlowExtracted.confirmation = Str(<<"y","e","s">>)
        /\ ( /\ ~Truthy(FlowExtracted.wantsToCancel)
             /\ ~Truthy(FlowExtracted.wantsToRestart)
             /\ ~(flow.before.isConfirming /\ Truthy(FlowExtracted.confirmation)) )
               => flow.result.threw \/ flow.result.action \in {"collecting", "confirming"}
        /\ flow.result.action \in {"cancelled", "confirmed", "edit_requested"}
               => flow.result.state.collectedFields = flow.before.collectedFields

\* "never mind, start over" fires the cancel and the restart signal on a
\* state that holds fields: the turn is a cancel and the fields stay
C5_Witness ==
    /\ flow.message = M_nevermind_startover
    /\ Truthy(FlowExtracted.wantsToCancel) /\ Truthy(FlowExtracted.wantsToRestart)
    /\ flow.before.isActive /\ flow.before.collectedFields # NoFields
    /\ flow.result.action = "cancelled"
    /\ flow.result.state.collectedFields = flow.before.collectedFields

\* C6: a collection turn that leaves all five required fields present
\* returns isConfirming = true, action 'confirming' and the confirmation
\* summary
C6_CompleteMeansConfirming ==
    ( /\ FlowTurned /\ ~flow.result.threw
      /\ flow.result.action \in {"collecting", "confirming"}
      /\ \A f \in RequiredSet : ~IsMissing(flow.result.state.collectedFields[f]) )
        => /\ flow.result.state.isConfirming
           /\ flow.result.action = "confirming"
           /\ flow.result.response = Response("confirmation", "null", "")

\* "10am" gives the fifth field of a state that was collecting
C6_Witness ==
    /\ flow.message = M_10am /\ flow.before.isActive /\ ~flow.before.isConfirming
    /\ IsMissing(flow.before.collectedFields["preferredTime"])
    /\ flow.result.action = "confirming" /\ flow.state.isConfirming

\* C7, as stated: on a confirming state, an utterance that begins with a
\* negative word and holds no cancel or restart keyword gives
\* 'edit_requested' and isConfirming = false, whatever the AI adapter returns
C7_NegativeWordRequestsEdit ==
    ( /\ FlowTurned /\ flow.before.isConfirming
      /\ flow.message \in NegativeUtterances
      /\ flow.message \notin CancelUtterances \cup RestartUtterances )
        => /\ flow.result.action = "edit_requested"
           /\ ~flow.result.state.isConfirming

\* the AI adapter is absent or fails, or its answer carries no cancel flag,
\* no restart flag and no confirmation
AINoSignal(ai) ==
    \/ ai.kind # "object"
    \/ /\ ~Truthy(ai.wantsToCancel)
       /\ ~Truthy(ai.wantsToRestart)
       /\ ~Truthy(ai.confirmation)

\* C7, amended: the same when the AI adapter gives no signal of its own
C7_NegativeWordWithoutAISignal ==
    ( /\ FlowTurned /\ flow.before.isConfirming
      /\ flow.message \in NegativeUtterances
      /\ flow.message \notin CancelUtterances \cup RestartUtterances
      /\ AINoSignal(flow.ai) )
        => /\ ~flow.result.threw
           /\ flow.result.action = "edit_requested"
           /\ ~flow.result.state.isConfirming
           /\ flow.result.state.collectedFields = flow.before.collectedFields

\* "no, let's change something" on a confirming state, the AI adapter
\* answering with fields only
C7_Witness ==
    /\ flow.message = M_no_change /\ flow.ai = AI_fields
    /\ flow.before.isActive /\ flow.before.isConfirming
    /\ flow.result.action = "edit_requested" /\ ~flow.state.isConfirming

\* C8: the response of a turn is null exactly when the action is
\* 'confirmed'; with every other action it is a message of the engine
C8_NullResponseIffConfirmed ==
    (FlowTurned /\ ~flow.result.threw)
        => /\ flow.result.response.kind = "null" <=> flow.result.action = "confirmed"
           /\ flow.result.action \in
                {"collecting", "confirming", "cancelled", "restarted",
                 "edit_requested", "confirmed"}
           /\ flow.result.action # "confirmed"
                => /\ flow.result.response.kind \in
                        {"prompt", "errorPrompt", "confirmation", "cancelled",
                         "restarted", "editPrompt"}
                   /\ flow.result.response.kind \in {"prompt", "errorPrompt"}
                        => flow.result.response.field \in RequiredSet

\* a 'confirmed' turn with a null response, and before it a retry prompt
C8_Witness ==
    /\ flow.message = M_yes /\ flow.before.isConfirming
    /\ flow.result.action = "confirmed" /\ flow.result.response.kind = "null"

----------------------------------------------------------------------------
(* Properties of the server, checked on every state of Spec.               *)

\* C3: every value of collectedFields in every stored booking state passes
\* the validator of its field
C3_StoredFieldsAreValid ==
    \A s \in DOMAIN bookingStates : \A f \in RequiredSet :
        bookingStates[s].collectedFields[f] # Null
            => Validation(f, bookingStates[s].collectedFields[f],
                          serverDay, serverZone).valid

\* C4: a stored booking state that is confirming holds a non-empty value
\* for each of the five required fields
C4_ConfirmingImpliesAllFields ==
    \A s \in DOMAIN bookingStates :
        bookingStates[s].isConfirming
            => \A f \in RequiredSet : ~IsMissing(bookingStates[s].collectedFields[f])

\* a collection turn of the controller has just stored a confirming state
C4_Witness ==
    /\ lastTurn.op = "booking" /\ lastTurn.action = "confirming"
    /\ \E s \in DOMAIN bookingStates :
           /\ bookingStates[s].isConfirming
           /\ \A f \in RequiredSet : ~IsMissing(bookingStates[s].collectedFields[f])

\* C9: from a stored state that is not confirming no utterance and no answer
\* of the AI adapter gives 'confirmed' or 'edit_requested', and
\* createAppointmentFromFields is only called with all five fields
C9_ConfirmationOnlyWhenConfirming ==
    /\ \A s \in DOMAIN bookingStates :
           ~bookingStates[s].isConfirming
               => \A message \in Messages, ai \in AIOutcomes :
                      processMessage(message, bookingStates[s], ai,
                                     serverDay, serverZone).action
                          \notin {"confirmed", "edit_requested"}
    /\ lastTurn.created # "none"
           => \A f \in RequiredSet : ~IsMissing(lastTurn.fields[f])

\* createAppointmentFromFields was called with all five fields, and the
\* booking stored after its failure is not confirming: on it "yes" is not a
\* confirmation
C9_Witness ==
    /\ lastTurn.created = "failed" /\ lastTurn.action = "confirmed"
    /\ \A f \in RequiredSet : ~IsMissing(lastTurn.fields[f])
    /\ \E s \in DOMAIN bookingStates :
           /\ ~bookingStates[s].isConfirming
           /\ processMessage(M_yes, bookingStates[s], NoAI, serverDay, serverZone).action
                  = "confirming"

\* C10: after a failed creation the stored state is still confirming, and
\* the next "yes" gives 'confirmed' again
C10_FailedCreationStaysConfirming ==
    lastTurn.created = "failed"
        => \E s \in DOMAIN bookingStates :
               /\ bookingStates[s].isConfirming
               /\ processMessage(M_yes, bookingStates[s], NoAI, serverDay, serverZone).action
                      = "confirmed"

\* C11: after a failed creation the reply is the apology, a booking stays
\* stored and active with the fields the creation was given, and "yes",
\* then "yes" again, reaches 'confirmed' with those fields
C11_FailedCreationKeepsFields ==
    lastTurn.created = "failed"
        => /\ lastTurn.response = Response("creationFailed", "null", "")
           /\ \E s \in DOMAIN bookingStates :
                  /\ bookingStates[s].isActive
                  /\ bookingStates[s].collectedFields = lastTurn.fields
                  /\ processMessage(M_yes, bookingStates[s], NoAI,
                                    serverDay, serverZone).action = "confirming"
                  /\ processMessage(M_yes,
                         processMessage(M_yes, bookingStates[s], NoAI,
                                        serverDay, serverZone).state,
                         NoAI, serverDay, serverZone).action = "confirmed"
                  /\ processMessage(M_yes,
                         processMessage(M_yes, bookingStates[s], NoAI,
                                        serverDay, serverZone).state,
                         NoAI, serverDay, serverZone).state.collectedFields
                       = lastTurn.fields

\* appointment.save() has just rejected on a 'confirmed' turn
C11_Witness ==
    /\ lastTurn.op = "booking" /\ lastTurn.action = "confirmed"
    /\ lastTurn.created = "failed"
    /\ \E s \in DOMAIN bookingStates :
           bookingStates[s].isActive /\ ~bookingStates[s].isConfirming

----------------------------------------------------------------------------
(* Properties of processMessage on what the AI adapter delivers and on     *)
(* candidates that fail validation, checked on every turn of FlowSpec.     *)

\* C12: when the AI adapter throws or returns text that holds no JSON
\* object, the result of the turn is the result of the same turn with the
\* adapter absent, and the turn does not throw
C12_AIFailureFallsBackToRegex ==
    (FlowTurned /\ flow.ai \in {AI_throws, AI_unparseable})
        => /\ flow.result = processMessage(flow.message, flow.before, NoAI,
                                           serverDay, serverZone)
           /\ ~flow.result.threw

\* the adapter returned unparseable text on the phone number turn
C12_Witness ==
    /\ flow.ai = AI_unparseable /\ flow.message = M_phone
    /\ flow.before.isActive /\ ~flow.before.isConfirming
    /\ flow.result.action = "collecting"
    /\ flow.state.collectedFields["phoneNumber"] = Str(<<"5","5","5","-","1","2","3","-","4","5","6","7">>)

\* C13: no turn throws, whatever the AI adapter puts in a field position
C13_ValidatorsNeverThrow == FlowTurned => ~flow.result.threw

\* the fields of the turn's extraction that fail their validator
FlowInvalidCandidates ==
    { f \in RequiredSet :
        /\ Truthy(FlowExtracted.fields[f])
        /\ ~Validation(f, FlowExtracted.fields[f], serverDay, serverZone).valid }

\* C14: a collection turn whose extraction holds a candidate that fails its
\* validator answers with that field's retry prompt, errorField and
\* lastError set, action 'collecting'
C14_InvalidCandidateSurfaced ==
    ( /\ FlowTurned /\ ~flow.result.threw
      /\ flow.result.action \in {"collecting", "confirming"}
      /\ FlowInvalidCandidates # {} )
        => /\ flow.result.action = "collecting"
           /\ flow.result.state.errorField \in FlowInvalidCandidates
           /\ flow.result.state.lastError # "null"
           /\ flow.result.response =
                  generatePrompt(flow.result.state.errorField, TRUE)

\* C15: "123" when the phone number is the next missing field gives the
\* retry prompt of the phone number, errorField = phoneNumber, action
\* 'collecting', and no phone number stored
C15_ShortPhoneRejected ==
    ( /\ FlowTurned /\ flow.message = M_123 /\ flow.ai = NoAI
      /\ ~flow.before.isConfirming
      /\ getNextField(flow.before.collectedFields) = "phoneNumber" )
        => /\ flow.result.action = "collecting"
           /\ flow.result.response = generatePrompt("phoneNumber", TRUE)
           /\ flow.result.state.errorField = "phoneNumber"
           /\ IsMissing(flow.result.state.collectedFields["phoneNumber"])

\* C16: the first turn of the scenario, "I'm John and my dog is Buddy" on
\* the empty state, stores petOwnerName "John" and petName "Buddy" and
\* prompts for the phone number
C16_ScenarioFirstTurn ==
    ( /\ FlowTurned /\ flow.message = M_john_buddy /\ flow.ai = NoAI
      /\ flow.before = createBookingState(NoFields) )
        => /\ flow.result.state.collectedFields["petOwnerName"] = Str(<<"J","o","h","n">>)
           /\ flow.result.state.collectedFields["petName"] = Str(<<"B","u","d","d","y">>)
           /\ flow.result.action = "collecting"
           /\ flow.result.response.field = "phoneNumber"

----------------------------------------------------------------------------
(* The requests of a session handled concurrently, with the AI adapter     *)
(* configured: sendMessage reads the booking state, awaits analyzeMessage  *)
(* (the AI call), and only then runs the rest of processMessage and writes *)
(* the state; on 'confirmed' it awaits the creation and writes again.      *)

MaxRequests == 2

\* a request being handled: the message, what the AI call answers if it
\* answers, the booking state sendMessage read, where the handler is, and
\* the action and the state it wrote
Request(s, message, ai, read, pc, action, written) ==
    [session |-> s, message |-> message, ai |-> ai, read |-> read, pc |-> pc,
     action |-> action, written |-> written]

\* the messages sent while a booking is collected, each with an answer of
\* the AI call
AsyncInputs ==
    ({ M_ann_rex, M_phone, M_tomorrow, M_10am, M_yes, M_cancel } \X { AI_throws })
    \cup { <<M_yes, AI_fields>> }

AsyncInit ==
    /\ bookingStates = [s \in Sessions |-> createBookingState(NoFields)]
    /\ conversation = [s \in Sessions |-> findOrCreate(NoConversation, NoContext)]
    /\ context = NoContext
    /\ serverDay \in Todays
    /\ serverZone \in Zones
    /\ lastTurn = Turn("none", FALSE, "none", NoResponse, "none", NoFields)
    /\ flow = NoFlow
    /\ requests = << >>
    /\ dateCase = NoDateCase

besideAsync == <<conversation, context, serverDay, serverZone, lastTurn, flow, dateCase>>

\* sendMessage up to "await appointmentFlowService.processMessage": the
\* booking state is read, then analyzeMessage awaits the AI call
AsyncReceive(s, message, ai) ==
    /\ Len(requests) < MaxRequests
    /\ getBookingState(bookingStates, s).isActive
    /\ requests' = Append(requests,
            Request(s, message, ai, getBookingState(bookingStates, s),
                    "extracting", "none", NullState))
    /\ UNCHANGED <<bookingStates, besideAsync>>

\* the AI call returns (or rejects): the rest of processMessage runs on the
\* state that was read, and sendMessage stores result.state and switches on
\* the action
AIReturns(i) ==
    LET Stored(req, result) ==
            IF result.threw
            THEN /\ bookingStates' = bookingStates
                 /\ requests' = [requests EXCEPT ![i].pc = "done"]
            ELSE /\ bookingStates' =
                        setBookingState(bookingStates, req.session,
                            IF result.action = "cancelled" THEN NullState
                            ELSE result.state)
                 /\ requests' = [requests EXCEPT
                        ![i].pc = IF result.action = "confirmed"
                                  THEN "creating" ELSE "done",
                        ![i].action = result.action,
                        ![i].written = result.state]
        Resumed(req) ==
            Stored(req, processMessage(req.message, req.read, req.ai,
                                       serverDay, serverZone))
    IN  /\ i \in DOMAIN requests
        /\ requests[i].pc = "extracting"
        /\ Resumed(requests[i])
        /\ UNCHANGED besideAsync

\* createAppointmentFromFields resolves or rejects
AsyncCreated(i, createOk) ==
    /\ i \in DOMAIN requests
    /\ requests[i].pc = "creating"
    /\ bookingStates' =
            setBookingState(bookingStates, requests[i].session,
                IF createOk THEN NullState
                ELSE [requests[i].written EXCEPT !.isConfirming = FALSE])
    /\ requests' = [requests EXCEPT ![i].pc = "done"]
    /\ UNCHANGED besideAsync

\* a cancel-booking request arrives while message requests may be in
\* flight: the handler has no await before it clears the record
AsyncCancelBooking(s) ==
    /\ Len(requests) < MaxRequests
    /\ getBookingState(bookingStates, s).isActive
    /\ bookingStates' = setBookingState(bookingStates, s, NullState)
    /\ requests' = Append(requests,
            Request(s, << >>, NoAI, getBookingState(bookingStates, s),
                    "done", "cancel-booking", NullState))
    /\ UNCHANGED besideAsync

\* the responses are sent; a session left without a booking starts one
AsyncRespond ==
    /\ requests # << >>
    /\ \A i \in DOMAIN requests : requests[i].pc = "done"
    /\ requests' = << >>
    /\ bookingStates' =
            [s \in Sessions |->
                IF getBookingState(bookingStates, s).isActive
                THEN bookingStates[s] ELSE startState(NoFields)]
    /\ UNCHANGED besideAsync

AsyncNext ==
    \/ \E s \in Sessions, input \in AsyncInputs : AsyncReceive(s, input[1], input[2])
    \/ \E i \in 1..MaxRequests : AIReturns(i)
    \/ \E i \in 1..MaxRequests, createOk \in BOOLEAN : AsyncCreated(i, createOk)
    \/ \E s \in Sessions : AsyncCancelBooking(s)
    \/ AsyncRespond

AsyncSpec == AsyncInit /\ [][AsyncNext]_vars

\* the steps the server takes by itself are taken; the return of the AI
\* call is awaited with no timer, nothing in the server makes it happen
AsyncLiveSpec ==
    /\ AsyncSpec
    /\ WF_vars(\E i \in 1..MaxRequests, createOk \in BOOLEAN : AsyncCreated(i, createOk))
    /\ WF_vars(AsyncRespond)

\* C17: two overlapping collection turns of a session leave the state that
\* handling the two messages one after the other leaves, in one of the two
\* orders
C17_OverlappingTurnsSerialize ==
    ( /\ Len(requests) = 2
      /\ \A i \in 1..2 : /\ requests[i].pc = "done"
                         /\ requests[i].action \in {"collecting", "confirming"} )
        => \E first \in 1..2 :
               getBookingState(bookingStates, requests[1].session) =
                   processMessage(requests[3 - first].message,
                       processMessage(requests[first].message, requests[1].read,
                                      requests[first].ai, serverDay, serverZone).state,
                       requests[3 - first].ai, serverDay, serverZone).state

\* C18: every turn that awaits the AI call eventually goes on
C18_EveryTurnCompletes ==
    \A i \in 1..MaxRequests :
        (i \in DOMAIN requests /\ requests[i].pc = "extracting")
            ~> ~(i \in DOMAIN requests /\ requests[i].pc = "extracting")

----------------------------------------------------------------------------
(* The date functions driven alone, in every zone the server may run in:   *)
(* the preferredDate validator on canonical dates around the two limits,   *)
(* and parseNaturalDate on texts and on its own results written out as     *)
(* "Month D, YYYY".                                                        *)

\* the zones of the server, UTC-12 .. UTC+14
DateZones == (0 - 12)..14

\* the local days of the server
DateTodays == { DaysFromCivil(2026, 11, 1), DaysFromCivil(2026, 12, 31) }

\* the distances, in days from today, of the dates given to the validator
DateOffsets == { 0 - 30, 0 - 1, 0, 1, 45, 89, 90, 91, 120 }

\* the texts given to parseNaturalDate
DateTexts ==
    { <<"t","o","d","a","y">>, <<"t","o","m","o","r","r","o","w">>, <<"n","e","x","t"," ","w","e","e","k">>, <<"n","e","x","t"," ","m","o","n","d","a","y">>, <<"t","h","i","s"," ","f","r","i","d","a","y">>,
      <<"J","a","n","u","a","r","y"," ","2","0">>, <<"2","0","2","0","-","0","1","-","0","1">>, <<"2","0","2","6","-","1","1","-","1","5">>, <<"1","2","/","2","5","/","2","0","2","8">>, <<"y","e","s">> }

\* a date YYYY-MM-DD written as "Month D, YYYY"
MonthDYear(iso) ==
    LET Initials == <<"J","F","M","A","M","J","J","A","S","O","N","D">>
        Name(k) == << Initials[k] >> \o Tail(MonthAlts[k].abbr) \o MonthAlts[k].rest
    IN  Name(parseInt(SubSeq(iso, 6, 7))) \o << " " >>
            \o toString(parseInt(SubSeq(iso, 9, 10))) \o << ",", " " >>
            \o SubSeq(iso, 1, 4)

DateInit ==
    /\ bookingStates = [x \in {} |-> NullState]
    /\ conversation = [s \in Sessions |-> NoConversation]
    /\ context = NoContext
    /\ serverDay \in DateTodays
    /\ serverZone \in DateZones
    /\ lastTurn = Turn("none", FALSE, "none", NoResponse, "none", NoFields)
    /\ flow = NoFlow
    /\ requests = << >>
    /\ dateCase = NoDateCase

besideDate ==
    <<bookingStates, conversation, context, serverDay, serverZone, lastTurn,
      flow, requests>>

\* FIELD_CONFIG.preferredDate.validate on the canonical date offset days
\* from today
ValidateDate(offset) ==
    /\ dateCase' = [op |-> "validate", offset |-> offset,
                    value |-> formatDay(serverDay + offset),
                    validation |-> validatePreferredDate(
                        Str(formatDay(serverDay + offset)), serverDay, serverZone)]
    /\ UNCHANGED besideDate

\* parseNaturalDate(text)
ParseDate(text) ==
    /\ dateCase' = [op |-> "parse", text |-> text,
                    result |-> parseNaturalDate(text, serverDay, serverZone)]
    /\ UNCHANGED besideDate

\* parseNaturalDate on the date it has just returned, written out
ReparseDate ==
    /\ dateCase.op = "parse"
    /\ dateCase.result # Null
    /\ dateCase' = [op |-> "reparse", text |-> MonthDYear(dateCase.result.s),
                    first |-> dateCase.result,
                    result |-> parseNaturalDate(MonthDYear(dateCase.result.s),
                                                serverDay, serverZone)]
    /\ UNCHANGED besideDate

DateNext ==
    \/ \E offset \in DateOffsets : ValidateDate(offset)
    \/ \E text \in DateTexts : ParseDate(text)
    \/ ReparseDate

DateSpec == DateInit /\ [][DateNext]_vars

\* C19: the validator accepts the canonical date d exactly when
\* today <= d <= today + 90, in every zone
C19_AcceptsExactlyNinetyDayWindow ==
    dateCase.op = "validate"
        => (dateCase.validation.valid <=> dateCase.offset \in 0..MaxDaysAhead)

\* C20: parseNaturalDate("tomorrow") is today + 1, and a date that
\* parseNaturalDate returned, written as "Month D, YYYY", parses to itself
C20_TomorrowAndRoundTrip ==
    /\ (dateCase.op = "parse" /\ dateCase.text = <<"t","o","m","o","r","r","o","w">>)
           => dateCase.result = Str(formatDay(serverDay + 1))
    /\ dateCase.op = "reparse" => dateCase.result = dateCase.first

----------------------------------------------------------------------------
(* The name validators, parseNaturalTime and analyzeMessage driven alone:  *)
(* each action is one call, dateCase holds the arguments and the result.   *)

\* the longest name given to the validators
MaxNameTried == 101

\* n letters
Letters(n) == [i \in 1..n |-> "a"]

\* the names given to the validators: letters alone, letters between
\* spaces, letters with a hyphen and an apostrophe, letters with a digit
NameValues ==
    { Letters(n) : n \in 0..MaxNameTried }
    \cup { << " " >> \o Letters(n) \o << " ", " " >> : n \in 0..MaxNameTried }
    \cup { Letters(n) \o << "-", "O", "'", "b" >> : n \in 0..3 }
    \cup { Letters(n) \o << "2" >> : n \in 1..3 }

FunctionInit ==
    /\ bookingStates = [x \in {} |-> NullState]
    /\ conversation = [s \in Sessions |-> NoConversation]
    /\ context = NoContext
    /\ serverDay \in Todays
    /\ serverZone \in Zones
    /\ lastTurn = Turn("none", FALSE, "none", NoResponse, "none", NoFields)
    /\ flow = NoFlow
    /\ requests = << >>
    /\ dateCase = NoDateCase

\* validateField(fieldName, value) for the two name fields
ValidateName(fieldName, chars) ==
    /\ dateCase' = [op |-> "validateName", field |-> fieldName, value |-> chars,
                    validation |-> validateField(fieldName, Str(chars),
                                                 serverDay, serverZone)]
    /\ UNCHANGED besideDate

\* C21: the petOwnerName validator accepts exactly the values of trimmed
\* length 2..100 made of letters, spaces, hyphens and apostrophes, and the
\* petName validator exactly the values of trimmed length 1..50
C21_NameValidatorsAcceptExactly ==
    dateCase.op = "validateName"
        => /\ dateCase.field = "petOwnerName"
                => (dateCase.validation.valid
                        <=> /\ Len(trim(dateCase.value)) \in 2..100
                            /\ OwnerNameChars(dateCase.value))
           /\ dateCase.field = "petName"
                => (dateCase.validation.valid
                        <=> Len(trim(dateCase.value)) \in 1..50)

\* the texts given to parseNaturalTime
TimeTexts ==
    { <<"1","0","a","m">>, <<"1","2","a","m">>, <<"1","2","p","m">>, <<"3","p","m">>, <<"3",":","3","0"," ","p","m">>, <<"1","2",":","1","5"," ","a","m">>, <<"1","3","p","m">>,
      <<"1","0",":","7","5","a","m">>, <<"9","9","a","m">>, <<"1","4",":","3","0">>, <<"2","5",":","0","0">>, <<"9">>, <<"2","1">>, <<"n","o","o","n">>,
      <<"m","o","r","n","i","n","g">>, <<"a","t"," ","7"," ","P","M"," ","p","l","e","a","s","e">>, <<"y","e","s">> }

\* parseNaturalTime(text)
ParseTime(text) ==
    /\ dateCase' = [op |-> "parseTime", text |-> text,
                    result |-> parseNaturalTime(text)]
    /\ UNCHANGED besideDate

\* C26: every result of parseNaturalTime that is not null passes the
\* preferredTime validator (HH:MM, hour 0..23, minute 0..59); 12am is hour
\* 00, 12pm hour 12, 3pm hour 15
C26_TimeResultsCanonical ==
    dateCase.op = "parseTime"
        => /\ dateCase.result # Null
                => /\ validatePreferredTime(dateCase.result).valid
                   /\ Len(dateCase.result.s) = 5
                   /\ parseInt(SubSeq(dateCase.result.s, 1, 2)) \in 0..23
                   /\ parseInt(SubSeq(dateCase.result.s, 4, 5)) \in 0..59
           /\ dateCase.text = <<"1","2","a","m">> => dateCase.result = Str(<<"0","0",":","0","0">>)
           /\ dateCase.text = <<"1","2","p","m">> => dateCase.result = Str(<<"1","2",":","0","0">>)
           /\ dateCase.text = <<"3","p","m">> => dateCase.result = Str(<<"1","5",":","0","0">>)

\* {"preferredDate": "2026-11-20", "preferredTime": "15:00"}
AI_datetime ==
    AIObject([NoFields EXCEPT !["preferredDate"] = Str(<<"2","0","2","6","-","1","1","-","2","0">>),
                              !["preferredTime"] = Str(<<"1","5",":","0","0">>)],
             Null, Null, Null)

\* the utterances and the answers of the AI adapter given to analyzeMessage
MergeInputs ==
    { M_tomorrow, M_10am, M_tomorrow_10am, M_past_date, M_yes, M_phone }
        \X { NoAI, AI_throws, AI_fields, AI_datetime }

\* analyzeMessage(message, conversationHistory, collectedFields)
AnalyzeCall(message, ai) ==
    /\ dateCase' = [op |-> "analyze", message |-> message, ai |-> ai,
                    result |-> analyzeMessage(message, ai, serverDay, serverZone)]
    /\ UNCHANGED besideDate

FunctionNext ==
    \/ \E fieldName \in {"petOwnerName", "petName"}, chars \in NameValues :
            ValidateName(fieldName, chars)
    \/ \E text \in TimeTexts : ParseTime(text)
    \/ \E input \in MergeInputs : AnalyzeCall(input[1], input[2])

FunctionSpec == FunctionInit /\ [][FunctionNext]_vars

\* C24: when parseNaturalDate or parseNaturalTime gives a value for the
\* utterance, the merged extraction holds that value for the field whatever
\* the AI adapter answered; the AI's value is there only when the parser
\* gave none
C24_ParserWinsForDateAndTime ==
    (dateCase.op = "analyze" /\ dateCase.ai.kind = "object")
        => /\ dateCase.result.fields["preferredDate"] =
                  IF parseNaturalDate(dateCase.message, serverDay, serverZone) # Null
                  THEN parseNaturalDate(dateCase.message, serverDay, serverZone)
                  ELSE dateCase.ai.fields["preferredDate"]
           /\ dateCase.result.fields["preferredTime"] =
                  IF parseNaturalTime(dateCase.message) # Null
                  THEN parseNaturalTime(dateCase.message)
                  ELSE dateCase.ai.fields["preferredTime"]

\* "10am" with the AI adapter answering a date and the time 15:00: the time
\* is the parser's, the date the adapter's
C24_Witness ==
    /\ dateCase.op = "analyze"
    /\ dateCase.message = M_10am /\ dateCase.ai = AI_datetime
    /\ dateCase.result.fields["preferredTime"] = Str(<<"1","0",":","0","0">>)
    /\ dateCase.result.fields["preferredDate"] = Str(<<"2","0","2","6","-","1","1","-","2","0">>)

----------------------------------------------------------------------------
(* Properties of the booking record in the session store, checked on Spec. *)

\* the request just handled ends the booking: a 'cancelled' turn, a
\* 'confirmed' turn whose appointment was created, the cancel-booking
\* endpoint, or the close of the conversation
EndsBooking(turn) ==
    \/ turn.op \in {"cancelBooking", "close"}
    \/ turn.op = "booking" /\ turn.action = "cancelled"
    \/ turn.op = "booking" /\ turn.action = "confirmed" /\ turn.created = "ok"

\* C22: a step removes the booking record of a session exactly when the
\* request it handles ends the booking, after which the store holds no
\* record for the session; every record the store holds is active
C22_RecordLeavesOnlyByEnding ==
    [][\A s \in Sessions :
          /\ s \in DOMAIN bookingStates
                => (s \notin DOMAIN bookingStates' <=> EndsBooking(lastTurn'))
          /\ EndsBooking(lastTurn') => s \notin DOMAIN bookingStates'
          /\ s \in DOMAIN bookingStates' => bookingStates'[s].isActive]_vars

\* a 'cancelled' turn has just removed the record
C22_Witness ==
    /\ lastTurn.op = "booking" /\ lastTurn.action = "cancelled"
    /\ DOMAIN bookingStates = {}

\* C23: the booking state stored when the intent is detected is active, not
\* confirming, and has an empty collectedFields
C23_StartStateIsEmpty ==
    (lastTurn.op = "start" /\ ~lastTurn.threw)
        => \A s \in DOMAIN bookingStates :
               /\ bookingStates[s].isActive
               /\ ~bookingStates[s].isConfirming
               /\ bookingStates[s].collectedFields = NoFields


\* ------------------------------------------------------------------
\* Field order of the collection prompts, checked on FlowSpec
\* ------------------------------------------------------------------

\* the turn of flow went through the collection handler and returned
FlowCollectionTurn ==
    /\ FlowTurned
    /\ ~flow.result.threw
    /\ flow.result.action \in { "collecting", "confirming" }

\* first field of REQUIRED_FIELDS, in its order, absent from the map
FirstAbsent(collectedFields) ==
    LET Absent == { i \in 1..Len(REQUIRED_FIELDS) :
                        IsMissing(collectedFields[REQUIRED_FIELDS[i]]) }
    IN  REQUIRED_FIELDS[CHOOSE i \in Absent : \A j \in Absent : i <= j]

\* C25: a collection turn that ends incomplete and had no invalid candidate
\* answers with the prompt of the first field, in the order petOwnerName,
\* petName, phoneNumber, preferredDate, preferredTime, that is absent from
\* the updated collectedFields, and sets currentField to that field.
C25_PromptIsFirstMissingField ==
    (/\ FlowCollectionTurn
     /\ ~isComplete(flow.result.state.collectedFields)
     /\ FlowInvalidCandidates = {})
    => /\ REQUIRED_FIELDS = << "petOwnerName", "petName", "phoneNumber",
                               "preferredDate", "preferredTime" >>
       /\ flow.result.action = "collecting"
       /\ flow.result.response.kind = "prompt"
       /\ flow.result.response.field = FirstAbsent(flow.result.state.collectedFields)
       /\ flow.result.state.currentField = FirstAbsent(flow.result.state.collectedFields)

\* a phone number given first is stored, and the owner's name is asked next
C25_Witness ==
    /\ FlowCollectionTurn
    /\ FlowInvalidCandidates = {}
    /\ flow.message = M_phone
    /\ flow.before.collectedFields = NoFields
    /\ flow.result.state.collectedFields["phoneNumber"] # Null
    /\ flow.result.response.field = "petOwnerName"
    /\ flow.result.state.currentField = "petOwnerName"


\* ------------------------------------------------------------------
\* The turn after an edit was requested, checked on FlowSpec
\* ------------------------------------------------------------------

\* the state an 'edit_requested' turn leaves: all five fields, not confirming
FlowAfterEdit ==
    /\ FlowTurned
    /\ ~flow.before.isConfirming
    /\ isComplete(flow.before.collectedFields)

\* C27: after an 'edit_requested' turn (isConfirming = false, all five
\* fields still collected) the next turn that is neither a cancel nor a
\* restart always returns action 'confirming' with isConfirming = true and
\* the confirmation summary, whatever the utterance supplied; the engine
\* never answers 'collecting' from that state.
C27_EditedTurnReconfirms ==
    (/\ FlowAfterEdit
     /\ ~Truthy(FlowExtracted.wantsToCancel)
     /\ ~Truthy(FlowExtracted.wantsToRestart))
    => /\ ~flow.result.threw
       /\ flow.result.action = "confirming"
       /\ flow.result.state.isConfirming
       /\ flow.result.response.kind = "confirmation"


\* ------------------------------------------------------------------
\* Stability of the collected fields over a turn, checked on FlowSpec
\* ------------------------------------------------------------------

\* C30: over a turn that is not a restart, a required field present in
\* collectedFields is never removed, and its value changes only in a
\* collection turn whose extraction produced a candidate for that field
\* that passed validation; a failed candidate leaves the stored value.
C30_StoredFieldsStable ==
    (FlowTurned /\ flow.result.action # "restarted")
    => \A f \in RequiredSet :
          ~IsMissing(flow.before.collectedFields[f])
          => /\ ~IsMissing(flow.result.state.collectedFields[f])
             /\ (flow.result.state.collectedFields[f] # flow.before.collectedFields[f])
                => /\ flow.result.action \in { "collecting", "confirming" }
                   /\ flow.result.state.collectedFields[f] = FlowExtracted.fields[f]
                   /\ Validation(f, FlowExtracted.fields[f], serverDay, serverZone).valid
             /\ (f \in FlowInvalidCandidates)
                => flow.result.state.collectedFields[f] = flow.before.collectedFields[f]

\* a date in the past offered after a date was stored: the stored one stays
C30_Witness ==
    /\ FlowTurned
    /\ ~flow.result.threw
    /\ flow.result.action = "collecting"
    /\ ~IsMissing(flow.before.collectedFields["preferredDate"])
    /\ "preferredDate" \in FlowInvalidCandidates
    /\ flow.result.response.kind = "errorPrompt"
    /\ flow.result.state.collectedFields["preferredDate"]
           = flow.before.collectedFields["preferredDate"]


\* ------------------------------------------------------------------
\* Confirmations and cancellations that overlap, checked on AsyncSpec
\* ------------------------------------------------------------------

\* the requests of the batch that called createAppointmentFromFields for
\* the confirming booking that request i read
CreationCalls(i) ==
    { j \in DOMAIN requests :
        /\ requests[j].session = requests[i].session
        /\ requests[j].read = requests[i].read
        /\ requests[j].action = "confirmed" }

\* C28: for one session in Confirming, two 'yes' messages processed
\* concurrently invoke the appointment creation at most once: one confirmed
\* booking never produces two appointment records.
C28_OneCreationPerConfirmation ==
    \A i \in DOMAIN requests :
        requests[i].read.isConfirming => Cardinality(CreationCalls(i)) <= 1

\* a cancellation of session s has completed among the requests in hand
Cancelled(s) ==
    \E i \in DOMAIN requests :
        /\ requests[i].session = s
        /\ requests[i].pc = "done"
        /\ requests[i].action \in { "cancelled", "cancel-booking" }

\* C29: once a cancellation (a 'cancelled' turn or the cancel-booking
\* endpoint) has completed for a session, the store holds no booking record
\* for it until a new booking intent is detected: a message turn that was in
\* flight when the cancellation ran does not write the booking state back.
C29_CancelledStaysCleared ==
    [][\A s \in Sessions :
          (/\ Cancelled(s)
           /\ ~getBookingState(bookingStates, s).isActive
           /\ getBookingState(bookingStates', s).isActive)
          => requests' = << >>]_vars

====
